---------------------------- MODULE Spec2Model ----------------------------
(* A model of the duckdb_rdkit screening core: the 64-bit DalkeFP          *)
(* fingerprint (make_dalke_fp, dalke_fp_contains), the Mol / UmbraMol      *)
(* buffer layouts (get_umbra_mol_string, umbra_mol_t) and the comparison   *)
(* functions (is_substruct, is_exact_match).                               *)
(*                                                                         *)
(* A uint64_t is modelled as the set of its set bit positions (0..63):     *)
(* TLC integers are 32 bits wide, so the C++ bit operations are modelled   *)
(* on that set: & is intersection, | is union, >> and << move positions.   *)
EXTENDS Integers, Sequences, FiniteSets, TLC

VARIABLES
    colType,  \* type of the two argument columns: "Mol", "UmbraMol" or "DalkeFP"
    left,     \* first argument of the current row (a buffer or a fingerprint)
    right,    \* second argument of the current row
    src,      \* where the two arguments come from: a SMILES text each, or "blob"
    op,       \* the scalar function that ran on the row ("none" before it ran)
    result,   \* what the function returned for the row
    calls,    \* the chemistry-engine / memory accesses the function made, in order
    catalog,  \* the process-wide vector dalke_counts
    build,    \* "debug" (D_ASSERT compiled in) or "release" (D_ASSERT is a no-op)
    loaded,   \* LoadInternal has registered the types, casts and functions
    fn,       \* the function or cast an executor runs on a chunk ("none": no chunk)
    parameters,  \* the CastParameters of the cast: strict, and whether
                 \* error_message points to a string ("set") or is "nullptr"
    chunk,    \* the input rows of the chunk
    out,      \* the result rows written so far
    status,   \* the executor: "idle", "running", "done", "raised" or "crashed"
    all_converted,  \* the flag a cast returns
    frames,   \* the locals of the calls of make_dalke_fp that are in progress
    pc        \* where each worker thread is in its row

\* the state of one row of a scalar function call
rowVars == <<colType, src, left, right, op, result, calls>>

\* the state of the process and of the executors that run chunks of rows
batchVars == <<catalog, build, loaded, fn, parameters, chunk, out, status,
               all_converted, frames, pc>>

vars == <<colType, src, left, right, op, result, calls,
          catalog, build, loaded, fn, parameters, chunk, out, status,
          all_converted, frames, pc>>

-----------------------------------------------------------------------------
(* uint64_t arithmetic on bit sets                                         *)

U64Bits == 0..63

\* x >> n
Shr(x, n) == {i - n : i \in {j \in x : j >= n}}

\* x << n (bits shifted past bit 63 are lost)
Shl(x, n) == {i + n : i \in {j \in x : j + n <= 63}}

\* x & y
BitAnd(x, y) == x \cap y

\* x | y
BitOr(x, y) == x \cup y

RECURSIVE Pow2(_)
Pow2(n) == IF n = 0 THEN 1 ELSE 2 * Pow2(n - 1)

RECURSIVE BitsToNat(_)
\* the numeric value of a bit set that fits a machine int (positions < 31)
BitsToNat(x) ==
    IF x = {} THEN 0
    ELSE LET i == CHOOSE j \in x : TRUE
         IN Pow2(i) + BitsToNat(x \ {i})

\* the bit set of a small natural number
NatToBits(n) == {i \in 0..15 : (n \div Pow2(i)) % 2 = 1}

\* static_cast<uint8_t>(x): keep the low 8 bits
AsU8(x) == BitsToNat(BitAnd(x, 0..7))

-----------------------------------------------------------------------------
(* dalke_fp_contains: the fingerprint screen                               *)

\* the screen as one mask test on all 64 bits: (target & query) == query
dalke_fp_contains_allbits(target_fp, query_fp) ==
    BitAnd(target_fp, query_fp) = query_fp

\* dalke_fp_contains with a fragment mask that takes in bit 63
dalke_fp_contains_mask63(target_fp, query_fp) ==
    LET target_size  == AsU8(BitAnd(Shr(target_fp, 55), NatToBits(15)))
        query_size   == AsU8(BitAnd(Shr(query_fp, 55), NatToBits(15)))
        target_rings == AsU8(BitAnd(Shr(target_fp, 59), NatToBits(3)))
        query_rings  == AsU8(BitAnd(Shr(query_fp, 59), NatToBits(3)))
        frag_mask    == (0..54) \cup {63}
    IN  IF target_size < query_size THEN FALSE
        ELSE IF target_rings < query_rings THEN FALSE
        ELSE IF BitAnd(query_fp, Shl({0}, 61)) # {}
                /\ BitAnd(target_fp, Shl({0}, 61)) = {} THEN FALSE
        ELSE IF BitAnd(query_fp, Shl({0}, 62)) # {}
                /\ BitAnd(target_fp, Shl({0}, 62)) = {} THEN FALSE
        ELSE IF BitAnd(BitAnd(target_fp, query_fp), frag_mask)
                # BitAnd(query_fp, frag_mask) THEN FALSE
        ELSE TRUE

\* dalke_fp_contains without its ring check
dalke_fp_contains_noring(target_fp, query_fp) ==
    LET target_size  == AsU8(BitAnd(Shr(target_fp, 55), NatToBits(15)))
        query_size   == AsU8(BitAnd(Shr(query_fp, 55), NatToBits(15)))
        frag_mask    == 0..54
    IN  IF target_size < query_size THEN FALSE
        ELSE IF BitAnd(query_fp, Shl({0}, 61)) # {}
                /\ BitAnd(target_fp, Shl({0}, 61)) = {} THEN FALSE
        ELSE IF BitAnd(query_fp, Shl({0}, 62)) # {}
                /\ BitAnd(target_fp, Shl({0}, 62)) = {} THEN FALSE
        ELSE IF BitAnd(BitAnd(target_fp, query_fp), frag_mask)
                # BitAnd(query_fp, frag_mask) THEN FALSE
        ELSE TRUE

dalke_fp_contains(target_fp, query_fp) ==
    LET target_size  == AsU8(BitAnd(Shr(target_fp, 55), NatToBits(15)))
        query_size   == AsU8(BitAnd(Shr(query_fp, 55), NatToBits(15)))
        target_rings == AsU8(BitAnd(Shr(target_fp, 59), NatToBits(3)))
        query_rings  == AsU8(BitAnd(Shr(query_fp, 59), NatToBits(3)))
        frag_mask    == 0..54   \* (1ULL << 55) - 1
    IN  IF target_size < query_size THEN FALSE
        ELSE IF target_rings < query_rings THEN FALSE
        ELSE IF BitAnd(query_fp, Shl({0}, 61)) # {}
                /\ BitAnd(target_fp, Shl({0}, 61)) = {} THEN FALSE
        ELSE IF BitAnd(query_fp, Shl({0}, 62)) # {}
                /\ BitAnd(target_fp, Shl({0}, 62)) = {} THEN FALSE
        ELSE IF BitAnd(BitAnd(target_fp, query_fp), frag_mask)
                # BitAnd(query_fp, frag_mask) THEN FALSE
        ELSE TRUE

-----------------------------------------------------------------------------
(* The chemistry engine (RDKit), as far as the core calls it.  A molecule  *)
(* graph is [atoms, bonds]: atoms a sequence of [el, q, chi, arom] (atomic *)
(* number, formal charge, chiral tag 0 = CHI_UNSPECIFIED, aromatic flag),  *)
(* bonds a sequence of <<i, j, type>> with type 1 SINGLE, 2 DOUBLE,        *)
(* 12 AROMATIC.                                                            *)

At(el) == [el |-> el, q |-> 0, chi |-> 0, arom |-> FALSE]
Ar(el) == [el |-> el, q |-> 0, chi |-> 0, arom |-> TRUE]
aC == At(6)
aN == At(7)
aO == At(8)
aF == At(9)
aS == At(16)
aCl == At(17)
rc == Ar(6)
rn == Ar(7)
ro == Ar(8)
rs == Ar(16)

\* a bond written without a symbol is aromatic between two aromatic atoms and
\* single otherwise; e lists <<i, j, order>> with order 0 for "no symbol"
Mk(atoms, e) ==
    [atoms |-> atoms,
     bonds |-> [k \in 1..Len(e) |->
                  <<e[k][1], e[k][2],
                    IF e[k][3] # 0 THEN e[k][3]
                    ELSE IF atoms[e[k][1]].arom /\ atoms[e[k][2]].arom THEN 12
                    ELSE 1>>]]

\* the bonds of an unbranched chain of n atoms
Path(n) == [k \in 1..(n - 1) |-> <<k, k + 1, 0>>]

NoMol == [atoms |-> <<>>, bonds |-> <<>>]

\* RDKit::SmilesToMol on the texts that occur: the 43 fragment patterns of
\* dalke_counts and the molecules of the model; any other text does not parse
\* (ok = FALSE: the parser returns null or raises).
SmilesGraph(s) ==
    CASE s = "O" -> Mk(<<aO>>, <<>>)
      [] s = "Ccc" -> Mk(<<aC, rc, rc>>, Path(3))
      [] s = "CCN" -> Mk(<<aC, aC, aN>>, Path(3))
      [] s = "cnc" -> Mk(<<rc, rn, rc>>, Path(3))
      [] s = "cN" -> Mk(<<rc, aN>>, Path(2))
      [] s = "C=O" -> Mk(<<aC, aO>>, <<<<1, 2, 2>>>>)
      [] s = "CCC" -> Mk(<<aC, aC, aC>>, Path(3))
      [] s = "S" -> Mk(<<aS>>, <<>>)
      [] s = "c1ccccc1" -> Mk(<<rc, rc, rc, rc, rc, rc>>, Path(6) \o <<<<1, 6, 0>>>>)
      [] s = "N" -> Mk(<<aN>>, <<>>)
      [] s = "C=C" -> Mk(<<aC, aC>>, <<<<1, 2, 2>>>>)
      [] s = "nn" -> Mk(<<rn, rn>>, Path(2))
      [] s = "CO" -> Mk(<<aC, aO>>, Path(2))
      [] s = "Ccn" -> Mk(<<aC, rc, rn>>, Path(3))
      [] s = "CCCCC" -> Mk(<<aC, aC, aC, aC, aC>>, Path(5))
      [] s = "cc(c)c" -> Mk(<<rc, rc, rc, rc>>, <<<<1, 2, 0>>, <<2, 3, 0>>, <<2, 4, 0>>>>)
      [] s = "CNC" -> Mk(<<aC, aN, aC>>, Path(3))
      [] s = "s" -> Mk(<<rs>>, <<>>)
      [] s = "CC(C)C" -> Mk(<<aC, aC, aC, aC>>, <<<<1, 2, 0>>, <<2, 3, 0>>, <<2, 4, 0>>>>)
      [] s = "o" -> Mk(<<ro>>, <<>>)
      [] s = "cncnc" -> Mk(<<rc, rn, rc, rn, rc>>, Path(5))
      [] s = "C=N" -> Mk(<<aC, aN>>, <<<<1, 2, 2>>>>)
      [] s = "CC=O" -> Mk(<<aC, aC, aO>>, <<<<1, 2, 0>>, <<2, 3, 2>>>>)
      [] s = "Cl" -> Mk(<<aCl>>, <<>>)
      [] s = "ccncc" -> Mk(<<rc, rc, rn, rc, rc>>, Path(5))
      [] s = "CCCCCC" -> Mk(<<aC, aC, aC, aC, aC, aC>>, Path(6))
      [] s = "F" -> Mk(<<aF>>, <<>>)
      [] s = "CCOC" -> Mk(<<aC, aC, aO, aC>>, Path(4))
      [] s = "c(cn)n" -> Mk(<<rc, rc, rn, rn>>, <<<<1, 2, 0>>, <<2, 3, 0>>, <<1, 4, 0>>>>)
      [] s = "C" -> Mk(<<aC>>, <<>>)
      [] s = "CC=C(C)C" -> Mk(<<aC, aC, aC, aC, aC>>,
                              <<<<1, 2, 0>>, <<2, 3, 2>>, <<3, 4, 0>>, <<3, 5, 0>>>>)
      [] s = "c1ccncc1" -> Mk(<<rc, rc, rc, rn, rc, rc>>, Path(6) \o <<<<1, 6, 0>>>>)
      [] s = "CC(C)N" -> Mk(<<aC, aC, aC, aN>>, <<<<1, 2, 0>>, <<2, 3, 0>>, <<2, 4, 0>>>>)
      [] s = "CC" -> Mk(<<aC, aC>>, Path(2))
      [] s = "CCC(C)O" -> Mk(<<aC, aC, aC, aC, aO>>,
                             <<<<1, 2, 0>>, <<2, 3, 0>>, <<3, 4, 0>>, <<3, 5, 0>>>>)
      [] s = "ccc(cc)n" -> Mk(<<rc, rc, rc, rc, rc, rn>>,
                              <<<<1, 2, 0>>, <<2, 3, 0>>, <<3, 4, 0>>, <<4, 5, 0>>, <<3, 6, 0>>>>)
      [] s = "C1CCCC1" -> Mk(<<aC, aC, aC, aC, aC>>, Path(5) \o <<<<1, 5, 0>>>>)
      [] s = "CNCN" -> Mk(<<aC, aN, aC, aN>>, Path(4))
      [] s = "cncn" -> Mk(<<rc, rn, rc, rn>>, Path(4))
      [] s = "CSC" -> Mk(<<aC, aS, aC>>, Path(3))
      [] s = "CCNCCCN" -> Mk(<<aC, aC, aN, aC, aC, aC, aN>>, Path(7))
      [] s = "CccC" -> Mk(<<aC, rc, rc, aC>>, Path(4))
      [] s = "ccccc(c)c" -> Mk(<<rc, rc, rc, rc, rc, rc, rc>>,
                               <<<<1, 2, 0>>, <<2, 3, 0>>, <<3, 4, 0>>, <<4, 5, 0>>,
                                 <<5, 6, 0>>, <<5, 7, 0>>>>)
      \* molecules of the model that are no catalog pattern
      [] s = "CCO" -> Mk(<<aC, aC, aO>>, Path(3))
      [] s = "OCC" -> Mk(<<aO, aC, aC>>, Path(3))
      [] s = "C1CC1" -> Mk(<<aC, aC, aC>>, Path(3) \o <<<<1, 3, 0>>>>)
      [] s = "CC(N)O" -> Mk(<<aC, aC, aN, aO>>, <<<<1, 2, 0>>, <<2, 3, 0>>, <<2, 4, 0>>>>)
      [] s = "C[C@H](N)O" ->
            Mk(<<aC, [aC EXCEPT !.chi = 1], aN, aO>>,
               <<<<1, 2, 0>>, <<2, 3, 0>>, <<2, 4, 0>>>>)
      [] s = "[NH4+]" -> Mk(<<[aN EXCEPT !.q = 1]>>, <<>>)
      [] s = "CCCCCCCCCCC" -> Mk([k \in 1..11 |-> aC], Path(11))
      [] s = "C1CC2CC12" ->
            Mk(<<aC, aC, aC, aC, aC>>, Path(5) \o <<<<1, 5, 0>>, <<3, 5, 0>>>>)
      \* pyramidane: an apex carbon bonded to the four carbons of a ring
      [] s = "C123C4C1C2C34" ->
            Mk(<<aC, aC, aC, aC, aC>>,
               <<<<1, 2, 0>>, <<2, 3, 0>>, <<1, 3, 0>>, <<3, 4, 0>>, <<1, 4, 0>>,
                 <<4, 5, 0>>, <<1, 5, 0>>, <<2, 5, 0>>>>)
      [] OTHER -> NoMol

SmilesParses(s) == SmilesGraph(s) # NoMol

\* rdkit_mol_from_smiles: the molecule, or ok = FALSE where it raises
\* InvalidInputException (the parser raised or returned null)
rdkit_mol_from_smiles(s) == [ok |-> SmilesParses(s), mol |-> SmilesGraph(s)]

\* RDKit::SubstructMatch atom compatibility of two molecule (non-query) atoms:
\* same element; a charge given in the query must be the target's; the chiral
\* tag counts only when useChirality is set.
AtomCompat(qa, ta, useChirality) ==
    /\ qa.el = ta.el
    /\ (qa.q # 0 => ta.q = qa.q)
    /\ (useChirality /\ qa.chi # 0 => ta.chi = qa.chi)

\* the type of the bond between atoms i and j of g, 0 if there is none
BondType(g, i, j) ==
    LET hits == {k \in 1..Len(g.bonds) :
                    {g.bonds[k][1], g.bonds[k][2]} = {i, j}}
    IN  IF hits = {} THEN 0 ELSE g.bonds[CHOOSE k \in hits : TRUE][3]

Range(f) == {f[k] : k \in DOMAIN f}

RECURSIVE Embeddings(_, _, _, _)
\* every way to extend the partial atom mapping m (query atom k -> m[k]) to a
\* mapping of all atoms of query into distinct atoms of mol that keeps atoms
\* compatible and maps every query bond onto a bond of the same type
Embeddings(mol, query, m, useChirality) ==
    IF Len(m) = Len(query.atoms) THEN {m}
    ELSE LET k == Len(m) + 1
             cand == {t \in 1..Len(mol.atoms) :
                        /\ t \notin Range(m)
                        /\ AtomCompat(query.atoms[k], mol.atoms[t], useChirality)
                        /\ \A j \in 1..Len(m) :
                              BondType(query, j, k) # 0 =>
                                  BondType(mol, m[j], t) = BondType(query, j, k)}
         IN  UNION {Embeddings(mol, query, Append(m, t), useChirality) : t \in cand}

\* RDKit::SubstructMatch(mol, query, matchVect, recursionPossible, useChirality)
SubstructMatch(mol, query, useChirality) ==
    Embeddings(mol, query, <<>>, useChirality) # {}

Min(a, b) == IF a <= b THEN a ELSE b

\* the match vector cut off after the first match, whatever the cap
SubstructMatchCount_first(mol, query, maxMatches) ==
    Min(Cardinality({Range(m) : m \in Embeddings(mol, query, <<>>, FALSE)}), 1)

\* the size of the match vector of RDKit::SubstructMatch(mol, query, params)
\* with params.uniquify (matches on the same atom set count once) and
\* params.maxMatches (0 = no cap)
SubstructMatchCount(mol, query, maxMatches) ==
    LET n == Cardinality({Range(m) : m \in Embeddings(mol, query, <<>>, FALSE)})
    IN  IF maxMatches = 0 THEN n ELSE Min(n, maxMatches)

\* ROMol::getNumHeavyAtoms
getNumHeavyAtoms(mol) ==
    Cardinality({i \in 1..Len(mol.atoms) : mol.atoms[i].el > 1})

RECURSIVE Reach(_, _)
\* the atoms connected to the atom set S
Reach(mol, S) ==
    LET T == S \cup {i \in 1..Len(mol.atoms) :
                        \E j \in S : BondType(mol, i, j) # 0}
    IN  IF T = S THEN S ELSE Reach(mol, T)

RECURSIVE Components(_, _)
\* the number of connected components among the atoms in rest
Components(mol, rest) ==
    IF rest = {} THEN 0
    ELSE LET i == CHOOSE j \in rest : TRUE
         IN  1 + Components(mol, rest \ Reach(mol, {i}))

\* RingInfo::numRings: the size of the smallest set of smallest rings
numRings(mol) ==
    Len(mol.bonds) - Len(mol.atoms) + Components(mol, 1..Len(mol.atoms))

-----------------------------------------------------------------------------
(* The Fragment Catalog and make_dalke_fp                                  *)

dalke_counts ==
    << <<"O", "2", "3", "1", "4", "5">>,
       <<"Ccc", "2", "4">>,
       <<"CCN", "1">>,
       <<"cnc", "1">>,
       <<"cN", "1">>,
       <<"C=O", "1">>,
       <<"CCC", "1">>,
       <<"S", "1">>,
       <<"c1ccccc1", "1", "2">>,
       <<"N", "2", "3", "1">>,
       <<"C=C", "1">>,
       <<"nn", "1">>,
       <<"CO", "2">>,
       <<"Ccn", "1", "2">>,
       <<"CCCCC", "1">>,
       <<"cc(c)c", "1">>,
       <<"CNC", "2">>,
       <<"s", "1">>,
       <<"CC(C)C", "1">>,
       <<"o", "1">>,
       <<"cncnc", "1">>,
       <<"C=N", "1">>,
       <<"CC=O", "2", "3">>,
       <<"Cl", "1">>,
       <<"ccncc", "2">>,
       <<"CCCCCC", "6">>,
       <<"F", "1">>,
       <<"CCOC", "3">>,
       <<"c(cn)n", "1">>,
       <<"C", "9", "6", "1">>,
       <<"CC=C(C)C", "1">>,
       <<"c1ccncc1", "1">>,
       <<"CC(C)N", "1">>,
       <<"CC", "1">>,
       <<"CCC(C)O", "4">>,
       <<"ccc(cc)n", "2">>,
       <<"C1CCCC1", "1">>,
       <<"CNCN", "1">>,
       <<"cncn", "3">>,
       <<"CSC", "1">>,
       <<"CCNCCCN", "1">>,
       <<"CccC", "1">>,
       <<"ccccc(c)c", "3">>
    >>

\* std::stoi on the threshold strings of the catalog
stoi(s) ==
    CASE s = "1" -> 1 [] s = "2" -> 2 [] s = "3" -> 3
      [] s = "4" -> 4 [] s = "5" -> 5 [] s = "6" -> 6
      [] s = "7" -> 7 [] s = "8" -> 8 [] s = "9" -> 9

\* heavy_atom_bucket with the boundary 75 written as 70
heavy_atom_bucket_70(count) ==
    IF count <= 5 THEN 0
    ELSE IF count <= 10 THEN 1
    ELSE IF count <= 15 THEN 2
    ELSE IF count <= 20 THEN 3
    ELSE IF count <= 25 THEN 4
    ELSE IF count <= 30 THEN 5
    ELSE IF count <= 35 THEN 6
    ELSE IF count <= 40 THEN 7
    ELSE IF count <= 50 THEN 8
    ELSE IF count <= 60 THEN 9
    ELSE IF count <= 70 THEN 10
    ELSE IF count <= 90 THEN 11
    ELSE IF count <= 110 THEN 12
    ELSE IF count <= 140 THEN 13
    ELSE IF count <= 180 THEN 14
    ELSE 15

heavy_atom_bucket(count) ==
    IF count <= 5 THEN 0
    ELSE IF count <= 10 THEN 1
    ELSE IF count <= 15 THEN 2
    ELSE IF count <= 20 THEN 3
    ELSE IF count <= 25 THEN 4
    ELSE IF count <= 30 THEN 5
    ELSE IF count <= 35 THEN 6
    ELSE IF count <= 40 THEN 7
    ELSE IF count <= 50 THEN 8
    ELSE IF count <= 60 THEN 9
    ELSE IF count <= 75 THEN 10
    ELSE IF count <= 90 THEN 11
    ELSE IF count <= 110 THEN 12
    ELSE IF count <= 140 THEN 13
    ELSE IF count <= 180 THEN 14
    ELSE 15

\* ring_count_bucket without the saturation at 3
ring_count_bucket_unsaturated(count) == count

ring_count_bucket(count) == IF count >= 3 THEN 3 ELSE count

\* params.maxMatches of make_dalke_fp
maxMatches == 10

RECURSIVE ThresholdLoop_exact(_, _, _, _, _)
\* the threshold loop with == in place of >=
ThresholdLoop_exact(frag, i, nMatches, fp, curBit) ==
    IF i > Len(frag) THEN [fp |-> fp, curBit |-> curBit]
    ELSE ThresholdLoop_exact(frag, i + 1, nMatches,
                             IF nMatches = stoi(frag[i])
                             THEN BitOr(fp, Shl({0}, curBit)) ELSE fp,
                             curBit + 1)

RECURSIVE ThresholdLoop(_, _, _, _, _)
\* for (i = 1; i < frag.size(); i++): one bit per threshold of the entry frag
ThresholdLoop(frag, i, nMatches, fp, curBit) ==
    IF i > Len(frag) THEN [fp |-> fp, curBit |-> curBit]
    ELSE ThresholdLoop(frag, i + 1, nMatches,
                       IF nMatches >= stoi(frag[i])
                       THEN BitOr(fp, Shl({0}, curBit)) ELSE fp,
                       curBit + 1)

\* curBit advanced once per catalog entry instead of once per threshold
curBitAt_per_entry(counts, k) == k - 1

\* the value of curBit when the loop over the catalog counts reaches entry k:
\* one bit was consumed for every threshold of every earlier entry
curBitAt(counts, k) ==
    Cardinality({<<j, i>> \in (1..(k - 1)) \X (2..8) :
                    j <= Len(counts) /\ i <= Len(counts[j])})

\* for (const auto &frag : dalke_counts): the fingerprint after the loop and
\* the final value of curBit.  The bits of entry k are those its threshold
\* loop sets starting from curBitAt(counts, k).
FragmentLoop(counts, mol) ==
    [fp |-> UNION {ThresholdLoop(counts[k], 2,
                       SubstructMatchCount(mol, SmilesGraph(counts[k][1]), maxMatches),
                       {}, curBitAt(counts, k)).fp : k \in 1..Len(counts)},
     curBit |-> curBitAt(counts, Len(counts) + 1)]

\* some atom has a chiral tag other than CHI_UNSPECIFIED
hasStereo(mol) == \E i \in 1..Len(mol.atoms) : mol.atoms[i].chi # 0

\* some atom has a nonzero formal charge
hasCharges(mol) == \E i \in 1..Len(mol.atoms) : mol.atoms[i].q # 0

\* make_dalke_fp after the loop over the catalog: the buckets and the flags
\* are added to the fragment bits frags
dalke_fp_tail(frags, mol) ==
    LET ha_bucket == heavy_atom_bucket(getNumHeavyAtoms(mol))
        ring_bucket == ring_count_bucket(numRings(mol))
        fp1 == BitOr(frags, Shl(NatToBits(ha_bucket), 55))
        fp2 == BitOr(fp1, Shl(NatToBits(ring_bucket), 59))
        fp3 == IF hasStereo(mol) THEN BitOr(fp2, Shl({0}, 61)) ELSE fp2
        fp4 == IF hasCharges(mol) THEN BitOr(fp3, Shl({0}, 62)) ELSE fp3
    IN  fp4

\* uint64_t make_dalke_fp(const RDKit::ROMol &mol), reading the global
\* dalke_counts (catalog)
make_dalke_fp(mol) == dalke_fp_tail(FragmentLoop(catalog, mol).fp, mol)

\* D_ASSERT(curBit == 55) of make_dalke_fp passes: always in a release build,
\* where D_ASSERT expands to nothing
make_dalke_fp_assert(mol) ==
    build = "debug" => FragmentLoop(catalog, mol).curBit = 55

-----------------------------------------------------------------------------
(* Buffers.  A Mol or UmbraMol value (a string_t) is its sequence of bytes, *)
(* each 0..255.                                                            *)

\* MolPickler::pickleMol: the atom count, two bytes per atom (atomic number;
\* chiral tag, charge and aromatic flag packed), the bond count, two bytes
\* per bond (the two atom indices packed; the bond type)
AtomBytes(a) == <<a.el, a.chi * 8 + (a.q + 1) * 2 + (IF a.arom THEN 1 ELSE 0)>>
BondBytes(b) == <<(b[1] - 1) * 16 + (b[2] - 1), b[3]>>

RECURSIVE Flatten(_)
Flatten(ss) == IF ss = <<>> THEN <<>> ELSE Head(ss) \o Flatten(Tail(ss))

pickleMol(mol) ==
    <<Len(mol.atoms)>>
        \o Flatten([i \in 1..Len(mol.atoms) |-> AtomBytes(mol.atoms[i])])
        \o <<Len(mol.bonds)>>
        \o Flatten([i \in 1..Len(mol.bonds) |-> BondBytes(mol.bonds[i])])

\* std::string rdkit_mol_to_binary_mol(const RDKit::ROMol mol)
rdkit_mol_to_binary_mol(mol) == pickleMol(mol)

\* does the byte sequence have the layout pickleMol writes
PickleWellFormed(b) ==
    /\ Len(b) >= 2
    /\ b[1] >= 1
    /\ Len(b) >= 2 * b[1] + 2
    /\ Len(b) = 2 * b[1] + 2 + 2 * b[2 * b[1] + 2]
    /\ \A i \in 1..b[1] : b[2 * i + 1] < 24 /\ (b[2 * i + 1] \div 2) % 4 < 3
    /\ \A k \in 1..b[2 * b[1] + 2] :
          LET x == b[2 * b[1] + 2 * k + 1]
          IN  x \div 16 < b[1] /\ x % 16 < b[1]

\* MolPickler::molFromPickle: the graph, or ok = FALSE where it raises
molFromPickle(b) ==
    IF ~PickleWellFormed(b) THEN [ok |-> FALSE, mol |-> NoMol]
    ELSE LET n == b[1]
             nb == b[2 * n + 2]
         IN  [ok |-> TRUE,
              mol |-> [atoms |-> [i \in 1..n |->
                                   [el |-> b[2 * i],
                                    chi |-> b[2 * i + 1] \div 8,
                                    q |-> ((b[2 * i + 1] \div 2) % 4) - 1,
                                    arom |-> b[2 * i + 1] % 2 = 1]],
                       bonds |-> [k \in 1..nb |->
                                   <<(b[2 * n + 2 * k + 1] \div 16) + 1,
                                     (b[2 * n + 2 * k + 1] % 16) + 1,
                                     b[2 * n + 2 * k + 2]>>]]]

\* std::unique_ptr<RDKit::ROMol> rdkit_binary_mol_to_mol(std::string bmol)
rdkit_binary_mol_to_mol(bmol) == molFromPickle(bmol)

\* the 8 bytes of a uint64_t as memcpy lays them out on a little-endian host
U64ToBytes(fp) ==
    [k \in 1..8 |-> BitsToNat({i - 8 * (k - 1) :
                        i \in {j \in fp : j >= 8 * (k - 1) /\ j < 8 * k}})]

\* the uint64_t that memcpy builds from 8 bytes on a little-endian host
BytesToU64(b) ==
    UNION {{8 * (k - 1) + j : j \in BitAnd(NatToBits(b[k]), 0..7)} : k \in 1..8}

\* umbra_mol_t::DALKE_FP_PREFIX_BYTES
DALKE_FP_PREFIX_BYTES == 8

\* umbra_mol_t::PREFIX_BYTES = string_t::PREFIX_BYTES
PREFIX_BYTES == 4

\* get_umbra_mol_string writing the fingerprint most significant byte first
get_umbra_mol_string_be(mol) ==
    LET binary_mol == rdkit_mol_to_binary_mol(mol)
        dalke_fp == make_dalke_fp(mol)
    IN  [k \in 1..DALKE_FP_PREFIX_BYTES |->
            U64ToBytes(dalke_fp)[DALKE_FP_PREFIX_BYTES + 1 - k]] \o binary_mol

\* std::string get_umbra_mol_string(const RDKit::ROMol &mol)
get_umbra_mol_string(mol) ==
    LET binary_mol == rdkit_mol_to_binary_mol(mol)
        dalke_fp == make_dalke_fp(mol)
    IN  SubSeq(U64ToBytes(dalke_fp), 1, DALKE_FP_PREFIX_BYTES) \o binary_mol

\* memcpy(dst, GetData(), n) on a buffer: the n bytes at offsets 0..n-1; a
\* byte at an offset at or past the buffer's size is not part of the value
\* and reads as whatever the memory behind it holds (slack)
ReadBytes(buf, n, slack) ==
    [k \in 1..n |-> IF k <= Len(buf) THEN buf[k] ELSE slack]

\* umbra_mol_t::GetDalkeFP: copies 8 bytes from GetData(), no size check
GetDalkeFP(buf, slack) == BytesToU64(ReadBytes(buf, DALKE_FP_PREFIX_BYTES, slack))

\* GetPrefix returning all 8 bytes of the fingerprint
GetPrefix_full(buf) == ReadBytes(buf, DALKE_FP_PREFIX_BYTES, 0)

\* umbra_mol_t::GetPrefix: the 4 prefix bytes string_t keeps inline, the
\* first bytes of the value, zero-filled when it is shorter
GetPrefix(buf) == ReadBytes(buf, PREFIX_BYTES, 0)

\* a - b in idx_t (unsigned 64 bit) arithmetic for sizes a, b < 2^31:
\* wrapped = FALSE and val = a - b, or wrapped = TRUE and the result is
\* 2^64 - val
IdxSub(a, b) ==
    IF a >= b THEN [wrapped |-> FALSE, val |-> a - b]
    ELSE [wrapped |-> TRUE, val |-> b - a]

\* umbra_mol_t::GetBinaryMol.  bmol_size is GetSize() - 8 in idx_t arithmetic;
\* a wrapped size is above std::string::max_size(), so buffer.resize raises
\* std::length_error (ok = FALSE) before the size guard of the copy is reached.
GetBinaryMol(buf) ==
    LET bmol_size == IdxSub(Len(buf), DALKE_FP_PREFIX_BYTES)
    IN  IF bmol_size.wrapped
        THEN [ok |-> FALSE, bytes |-> <<>>]
        ELSE IF Len(buf) > DALKE_FP_PREFIX_BYTES
        THEN [ok |-> TRUE,
              bytes |-> [k \in 1..bmol_size.val |-> buf[DALKE_FP_PREFIX_BYTES + k]]]
        ELSE [ok |-> TRUE, bytes |-> [k \in 1..bmol_size.val |-> 0]]

-----------------------------------------------------------------------------
(* Results and the log of calls                                            *)

None == [tag |-> "none", v |-> 0]
Bool(b) == [tag |-> "bool", v |-> b]
Count(n) == [tag |-> "int", v |-> n]
Blob(b) == [tag |-> "blob", v |-> b]
Fp(x) == [tag |-> "fp", v |-> x]
\* the row is set invalid in the validity mask (SQL NULL)
Null == [tag |-> "null", v |-> 0]
\* a VARCHAR result
Text(t) == [tag |-> "text", v |-> t]
\* the function raised; the exception leaves the executor
Error(what) == [tag |-> "error", v |-> what]

\* one logged call: f the function, arg the argument it was applied to
\* ("left", "right" or "-"), n the number of bytes it read from that buffer
Call(f, arg, n) == [f |-> f, arg |-> arg, n |-> n]

-----------------------------------------------------------------------------
(* mol_compare: is_exact_match, is_substruct, substruct_count              *)

Perms(n) == {p \in [1..n -> 1..n] : \A a, b \in 1..n : a # b => p[a] # p[b]}

\* RDKit::MolToSmiles(mol, doIsomericSmiles): the canonical text, which is the
\* same for two graphs exactly when one is a renumbering of the other (chiral
\* tags left out unless doIsomericSmiles).  It is modelled by the set of all
\* renumberings of the graph.
MolToSmiles(mol, doIsomericSmiles) ==
    LET n == Len(mol.atoms)
        label(a) == <<a.el, a.q, IF doIsomericSmiles THEN a.chi ELSE 0, a.arom>>
    IN  {[atoms |-> [k \in 1..n |-> label(mol.atoms[p[k]])],
          bonds |-> {<<k, l, BondType(mol, p[k], p[l])>> :
                        <<k, l>> \in {x \in (1..n) \X (1..n) :
                            x[1] < x[2] /\ BondType(mol, p[x[1]], p[x[2]]) # 0}}] :
         p \in Perms(n)}

\* mol_cmp with the canonical texts left out: the one-directional match
mol_cmp_oneway(m1_bmol, m2_bmol, a1, a2) ==
    LET m1 == molFromPickle(m1_bmol)
        m2 == molFromPickle(m2_bmol)
    IN  IF ~m1.ok \/ ~m2.ok
        THEN [res |-> Error("MolPicklerException"), calls |-> <<>>]
        ELSE [res |-> Bool(SubstructMatch(m1.mol, m2.mol, FALSE)), calls |-> <<>>]

\* mol_cmp that compares the pickles instead of the canonical texts
mol_cmp_bytes(m1_bmol, m2_bmol, a1, a2) ==
    LET m1 == molFromPickle(m1_bmol)
        m2 == molFromPickle(m2_bmol)
    IN  IF ~m1.ok \/ ~m2.ok
        THEN [res |-> Error("MolPicklerException"), calls |-> <<>>]
        ELSE [res |-> Bool(m1_bmol = m2_bmol), calls |-> <<>>]

\* mol_cmp that takes a match in either direction for a match
mol_cmp_either(m1_bmol, m2_bmol, a1, a2) ==
    LET m1 == molFromPickle(m1_bmol)
        m2 == molFromPickle(m2_bmol)
        c3 == <<Call("molFromPickle", a1, 0), Call("molFromPickle", a2, 0),
                Call("SubstructMatch", a1, 0), Call("SubstructMatch", a2, 0)>>
    IN  IF ~m1.ok \/ ~m2.ok
        THEN [res |-> Error("MolPicklerException"), calls |-> c3]
        ELSE IF SubstructMatch(m1.mol, m2.mol, FALSE)
                \/ SubstructMatch(m2.mol, m1.mol, FALSE)
        THEN [res |-> Bool(TRUE), calls |-> c3]
        ELSE [res |-> Bool(MolToSmiles(m1.mol, FALSE) = MolToSmiles(m2.mol, FALSE)),
              calls |-> c3]

\* bool mol_cmp(std::string m1_bmol, std::string m2_bmol); a1, a2 name the
\* arguments in the log
mol_cmp(m1_bmol, m2_bmol, a1, a2) ==
    LET m1 == molFromPickle(m1_bmol)
        m2 == molFromPickle(m2_bmol)
        c1 == <<Call("molFromPickle", a1, 0)>>
        c2 == c1 \o <<Call("molFromPickle", a2, 0)>>
        do_chiral_match == FALSE
    IN  IF ~m1.ok THEN [res |-> Error("MolPicklerException"), calls |-> c1]
        ELSE IF ~m2.ok THEN [res |-> Error("MolPicklerException"), calls |-> c2]
        ELSE LET ss1 == SubstructMatch(m1.mol, m2.mol, do_chiral_match)
                 ss2 == SubstructMatch(m2.mol, m1.mol, do_chiral_match)
                 c3 == c2 \o <<Call("SubstructMatch", a1, 0),
                                Call("SubstructMatch", a2, 0)>>
             IN  IF ss1 /\ ~ss2 THEN [res |-> Bool(FALSE), calls |-> c3]
                 ELSE IF ~ss1 /\ ss2 THEN [res |-> Bool(FALSE), calls |-> c3]
                 ELSE [res |-> Bool(MolToSmiles(m1.mol, do_chiral_match)
                                      = MolToSmiles(m2.mol, do_chiral_match)),
                       calls |-> c3 \o <<Call("MolToSmiles", a1, 0),
                                         Call("MolToSmiles", a2, 0)>>]

\* the row function of is_exact_match_mol
is_exact_match_mol_row(left_pickle, right_pickle) ==
    mol_cmp(left_pickle, right_pickle, "left", "right")

\* the row function of is_exact_match_umbramol.  GetPrefix returns the
\* prefix field of the string_t, not bytes of the buffer it points to: the
\* two calls are logged as reading 0 bytes of the buffers.
is_exact_match_umbramol_row(left_umbra_blob, right_umbra_blob) ==
    LET c0 == <<Call("GetPrefix", "left", 0), Call("GetPrefix", "right", 0)>>
    IN  IF GetPrefix(left_umbra_blob) # GetPrefix(right_umbra_blob)
        THEN [res |-> Bool(FALSE), calls |-> c0]
        ELSE LET l == GetBinaryMol(left_umbra_blob)
                 r == GetBinaryMol(right_umbra_blob)
             IN  IF ~l.ok \/ ~r.ok
                 THEN [res |-> Error("std::length_error"), calls |-> c0]
                 ELSE LET m == mol_cmp(l.bytes, r.bytes, "left", "right")
                      IN  [res |-> m.res, calls |-> c0 \o m.calls]

\* bool _is_substruct_rdkit(target_pickle, query_pickle)
is_substruct_rdkit(target_pickle, query_pickle) ==
    LET target_mol == molFromPickle(target_pickle)
        query_mol == molFromPickle(query_pickle)
        c1 == <<Call("molFromPickle", "left", 0)>>
        c2 == c1 \o <<Call("molFromPickle", "right", 0)>>
        do_chiral_match == FALSE
    IN  IF ~target_mol.ok THEN [res |-> Error("MolPicklerException"), calls |-> c1]
        ELSE IF ~query_mol.ok THEN [res |-> Error("MolPicklerException"), calls |-> c2]
        ELSE [res |-> Bool(SubstructMatch(target_mol.mol, query_mol.mol,
                                          do_chiral_match)),
              calls |-> c2 \o <<Call("SubstructMatch", "left", 0)>>]

\* _is_substruct_umbramol without the fingerprint screen
is_substruct_umbramol_noscreen(target, query, tslack, qslack) ==
    LET t == GetBinaryMol(target)
        q == GetBinaryMol(query)
    IN  IF ~t.ok \/ ~q.ok
        THEN [res |-> Error("std::length_error"), calls |-> <<>>]
        ELSE is_substruct_rdkit(t.bytes, q.bytes)

\* bool _is_substruct_umbramol(umbra_mol_t target, umbra_mol_t query); tslack
\* and qslack are the memory behind the two buffers
is_substruct_umbramol(target, query, tslack, qslack) ==
    LET q_dalke_fp == GetDalkeFP(query, qslack)
        t_dalke_fp == GetDalkeFP(target, tslack)
        c0 == <<Call("GetDalkeFP", "right", DALKE_FP_PREFIX_BYTES),
                Call("GetDalkeFP", "left", DALKE_FP_PREFIX_BYTES)>>
    IN  IF ~dalke_fp_contains(t_dalke_fp, q_dalke_fp)
        THEN [res |-> Bool(FALSE), calls |-> c0]
        ELSE LET t == GetBinaryMol(target)
                 q == GetBinaryMol(query)
             IN  IF ~t.ok \/ ~q.ok
                 THEN [res |-> Error("std::length_error"), calls |-> c0]
                 ELSE LET r == is_substruct_rdkit(t.bytes, q.bytes)
                      IN  [res |-> r.res, calls |-> c0 \o r.calls]

\* the size of the match vector of the RDKit::SubstructMatch overload that
\* takes uniquify, recursionPossible and useChirality: every embedding, or one
\* per matched atom set when uniquify is set
SubstructMatches(mol, query, uniquify, useChirality) ==
    LET E == Embeddings(mol, query, <<>>, useChirality)
    IN  IF uniquify THEN Cardinality({Range(m) : m \in E}) ELSE Cardinality(E)

\* _substruct_count_rdkit counting every embedding (uniquify = false)
substruct_count_rdkit_all(target_pickle, query_pickle) ==
    LET target_mol == molFromPickle(target_pickle)
        query_mol == molFromPickle(query_pickle)
    IN  IF ~target_mol.ok \/ ~query_mol.ok
        THEN [res |-> Error("MolPicklerException"), calls |-> <<>>]
        ELSE [res |-> Count(SubstructMatches(target_mol.mol, query_mol.mol,
                                             FALSE, FALSE)),
              calls |-> <<Call("molFromPickle", "left", 0),
                          Call("molFromPickle", "right", 0),
                          Call("SubstructMatch", "left", 0)>>]

\* int _substruct_count_rdkit(target_pickle, query_pickle)
substruct_count_rdkit(target_pickle, query_pickle) ==
    LET target_mol == molFromPickle(target_pickle)
        query_mol == molFromPickle(query_pickle)
        c1 == <<Call("molFromPickle", "left", 0)>>
        c2 == c1 \o <<Call("molFromPickle", "right", 0)>>
        uniquify == TRUE
        do_chiral_match == FALSE
    IN  IF ~target_mol.ok THEN [res |-> Error("MolPicklerException"), calls |-> c1]
        ELSE IF ~query_mol.ok THEN [res |-> Error("MolPicklerException"), calls |-> c2]
        ELSE [res |-> Count(SubstructMatches(target_mol.mol, query_mol.mol,
                                             uniquify, do_chiral_match)),
              calls |-> c2 \o <<Call("SubstructMatch", "left", 0)>>]

\* the row function of substruct_count_umbramol
substruct_count_umbramol_row(left_umbra_blob, right_umbra_blob, tslack, qslack) ==
    LET q_dalke_fp == GetDalkeFP(right_umbra_blob, qslack)
        t_dalke_fp == GetDalkeFP(left_umbra_blob, tslack)
        c0 == <<Call("GetDalkeFP", "right", DALKE_FP_PREFIX_BYTES),
                Call("GetDalkeFP", "left", DALKE_FP_PREFIX_BYTES)>>
    IN  IF ~dalke_fp_contains(t_dalke_fp, q_dalke_fp)
        THEN [res |-> Count(0), calls |-> c0]
        ELSE LET t == GetBinaryMol(left_umbra_blob)
                 q == GetBinaryMol(right_umbra_blob)
             IN  IF ~t.ok \/ ~q.ok
                 THEN [res |-> Error("std::length_error"), calls |-> c0]
                 ELSE LET r == substruct_count_rdkit(t.bytes, q.bytes)
                      IN  [res |-> r.res, calls |-> c0 \o r.calls]

-----------------------------------------------------------------------------
(* One row of a scalar function call.  The row starts with its two VARCHAR *)
(* arguments (src); mol_from_smiles or umbramol_from_smiles builds the two *)
(* values; a value may be replaced by a BLOB cast to the column type       *)
(* (Mol and UmbraMol are aliases of BLOB); then one function runs.         *)

\* the SMILES texts of the rows
MolTexts == {"C", "CC", "CCO", "OCC", "F", "Cl", "C1CC1", "CC(N)O",
             "C[C@H](N)O", "N", "[NH4+]", "C=O"}

\* the longest BLOB that is cast to a molecule type without coming from a
\* molecule
MaxBlobLen == 9

\* what the memory behind a buffer may hold
Slack == {0, 255}

\* the extension is loaded with the catalog as shipped and no executor runs
NoChunk ==
    /\ catalog = dalke_counts
    /\ build = "release"
    /\ loaded = TRUE
    /\ fn = "none"
    /\ parameters = [strict |-> FALSE, error_message |-> "nullptr"]
    /\ chunk = <<>>
    /\ out = <<>>
    /\ status = "idle"
    /\ all_converted = TRUE
    /\ frames = <<>>
    /\ pc = <<>>

Init ==
    /\ colType \in {"Mol", "UmbraMol"}
    /\ src \in MolTexts \X MolTexts
    /\ left = <<>>
    /\ right = <<>>
    /\ op = "start"
    /\ result = None
    /\ calls = <<>>
    /\ NoChunk

\* the row function of mol_from_smiles (the text parses)
mol_from_smiles_row(smiles) == rdkit_mol_to_binary_mol(SmilesGraph(smiles))

\* umbramol_from_smiles writing a zero fingerprint in front of the pickle
umbramol_from_smiles_row_nofp(smiles) ==
    U64ToBytes({}) \o rdkit_mol_to_binary_mol(SmilesGraph(smiles))

\* the row function of umbramol_from_smiles (the text parses)
umbramol_from_smiles_row(smiles) == get_umbra_mol_string(SmilesGraph(smiles))

mol_from_smiles ==
    /\ op = "start"
    /\ colType = "Mol"
    /\ left' = mol_from_smiles_row(src[1])
    /\ right' = mol_from_smiles_row(src[2])
    /\ op' = "none"
    /\ UNCHANGED <<colType, src, result, calls>>
    /\ UNCHANGED batchVars

umbramol_from_smiles ==
    /\ op = "start"
    /\ colType = "UmbraMol"
    /\ left' = umbramol_from_smiles_row(src[1])
    /\ right' = umbramol_from_smiles_row(src[2])
    /\ op' = "none"
    /\ UNCHANGED <<colType, src, result, calls>>
    /\ UNCHANGED batchVars

\* a BLOB holding the first n bytes of a value takes the place of the value
blob_cast ==
    /\ op = "none"
    /\ \E n \in 0..MaxBlobLen :
          \/ /\ n < Len(left)
             /\ left' = SubSeq(left, 1, n)
             /\ src' = [src EXCEPT ![1] = "blob"]
             /\ UNCHANGED right
          \/ /\ n < Len(right)
             /\ right' = SubSeq(right, 1, n)
             /\ src' = [src EXCEPT ![2] = "blob"]
             /\ UNCHANGED left
    /\ UNCHANGED <<colType, op, result, calls>>
    /\ UNCHANGED batchVars

\* the function f ran on the row and gave r = [res, calls]
Ran(f, r) ==
    /\ op' = f
    /\ result' = r.res
    /\ calls' = r.calls
    /\ UNCHANGED <<colType, src, left, right>>
    /\ UNCHANGED batchVars

is_exact_match_mol ==
    /\ op = "none" /\ colType = "Mol"
    /\ Ran("is_exact_match_mol", is_exact_match_mol_row(left, right))

is_exact_match_umbramol ==
    /\ op = "none" /\ colType = "UmbraMol"
    /\ Ran("is_exact_match_umbramol", is_exact_match_umbramol_row(left, right))

is_substruct_mol ==
    /\ op = "none" /\ colType = "Mol"
    /\ Ran("is_substruct_mol", is_substruct_rdkit(left, right))

is_substruct_umbramol_func ==
    /\ op = "none" /\ colType = "UmbraMol"
    /\ \E tslack, qslack \in Slack :
          Ran("is_substruct_umbramol",
              is_substruct_umbramol(left, right, tslack, qslack))

\* the row function of dalke_fp_from_umbramol with the size check off by one
dalke_fp_from_umbramol_row_le(umbramol_blob) ==
    IF Len(umbramol_blob) <= 8 THEN [res |-> Null, calls |-> <<>>]
    ELSE [res |-> Fp(BytesToU64(ReadBytes(umbramol_blob, 8, 0))),
          calls |-> <<Call("memcpy", "left", 8)>>]

\* the row function of dalke_fp_from_umbramol
dalke_fp_from_umbramol_row(umbramol_blob) ==
    IF Len(umbramol_blob) < 8 THEN [res |-> Null, calls |-> <<>>]
    ELSE [res |-> Fp(BytesToU64(ReadBytes(umbramol_blob, 8, 0))),
          calls |-> <<Call("memcpy", "left", 8)>>]

dalke_fp_from_umbramol ==
    /\ op = "none" /\ colType = "UmbraMol"
    /\ Ran("dalke_fp_from_umbramol", dalke_fp_from_umbramol_row(left))

\* the row function of umbramol_to_mol
umbramol_to_mol_row(b_umbra_mol) ==
    LET bmol == GetBinaryMol(b_umbra_mol)
    IN  IF ~bmol.ok THEN [res |-> Error("std::length_error"), calls |-> <<>>]
        ELSE [res |-> Blob(bmol.bytes), calls |-> <<>>]

umbramol_to_mol ==
    /\ op = "none" /\ colType = "UmbraMol"
    /\ Ran("umbramol_to_mol", umbramol_to_mol_row(left))

\* the row function of mol_to_umbramol that puts an empty fingerprint in front
\* of the pickle it was given instead of regenerating the buffer
mol_to_umbramol_row_patch(pickle) ==
    [res |-> Blob(U64ToBytes({}) \o pickle), calls |-> <<>>]

\* the row function of mol_to_umbramol; an exception of the deserializer is
\* caught and the row set invalid
mol_to_umbramol_row(pickle) ==
    LET mol == rdkit_binary_mol_to_mol(pickle)
        c1 == <<Call("molFromPickle", "left", 0)>>
    IN  IF ~mol.ok \/ ~make_dalke_fp_assert(mol.mol)
        THEN [res |-> Null, calls |-> c1]
        ELSE [res |-> Blob(get_umbra_mol_string(mol.mol)), calls |-> c1]

mol_to_umbramol ==
    /\ op = "none" /\ colType = "Mol"
    /\ Ran("mol_to_umbramol", mol_to_umbramol_row(left))

\* the row function of dalke_fp_from_mol; an exception of the deserializer is
\* caught and the row set invalid
dalke_fp_from_mol_row(mol_blob) ==
    LET mol == rdkit_binary_mol_to_mol(mol_blob)
        c1 == <<Call("molFromPickle", "left", 0)>>
    IN  IF ~mol.ok \/ ~make_dalke_fp_assert(mol.mol)
        THEN [res |-> Null, calls |-> c1]
        ELSE [res |-> Fp(make_dalke_fp(mol.mol)), calls |-> c1]

dalke_fp_from_mol ==
    /\ op = "none" /\ colType = "Mol"
    /\ Ran("dalke_fp_from_mol", dalke_fp_from_mol_row(left))

substruct_count_mol ==
    /\ op = "none" /\ colType = "Mol"
    /\ Ran("substruct_count_mol", substruct_count_rdkit(left, right))

substruct_count_umbramol ==
    /\ op = "none" /\ colType = "UmbraMol"
    /\ \E tslack, qslack \in Slack :
          Ran("substruct_count_umbramol",
              substruct_count_umbramol_row(left, right, tslack, qslack))

Next ==
    \/ mol_from_smiles
    \/ umbramol_from_smiles
    \/ blob_cast
    \/ is_exact_match_mol
    \/ is_exact_match_umbramol
    \/ is_substruct_mol
    \/ is_substruct_umbramol_func
    \/ dalke_fp_from_umbramol
    \/ umbramol_to_mol
    \/ substruct_count_mol
    \/ substruct_count_umbramol
    \/ mol_to_umbramol
    \/ dalke_fp_from_mol

Spec == Init /\ [][Next]_vars

-----------------------------------------------------------------------------
(* Fingerprint values the DalkeFP columns of dalke_fp_contains_func draw   *)
(* from: every combination of sampled field values.                        *)

FragSampleBits == {0, 54}
SizeSample == {0, 3, 4, 8, 15}
RingSample == 0..3

FPSample ==
    {BitOr(BitOr(frag, Shl(NatToBits(sz), 55)),
           BitOr(Shl(NatToBits(rg), 59), flags)) :
        frag \in SUBSET FragSampleBits, sz \in SizeSample,
        rg \in RingSample, flags \in SUBSET {61, 62}}

InitFP ==
    /\ colType = "DalkeFP"
    /\ src = <<"fp", "fp">>
    /\ left \in FPSample
    /\ right \in FPSample
    /\ op = "none"
    /\ result = None
    /\ calls = <<>>
    /\ NoChunk

\* dalke_fp_contains(target DalkeFP, query DalkeFP) -> BOOLEAN, one row
dalke_fp_contains_func ==
    /\ colType = "DalkeFP"
    /\ op = "none"
    /\ Ran("dalke_fp_contains",
           [res |-> Bool(dalke_fp_contains(left, right)), calls |-> <<>>])

NextFP == dalke_fp_contains_func

SpecFP == InitFP /\ [][NextFP]_vars

-----------------------------------------------------------------------------
(* dalke_fp_contains(dalke_fp(t), dalke_fp(q)) on two molecules given as   *)
(* SMILES: make_dalke_fp runs on both graphs, then dalke_fp_contains on    *)
(* the two fingerprints.                                                   *)

\* the SMILES texts of the rows: the molecules of MolTexts, chains, rings
\* (up to the four rings of pyramidane) and a chain of 11 carbons (more
\* matches of C than maxMatches)
GenTexts == MolTexts \cup {"CCC", "CCCCC", "CCCCCC", "CCCCCCCCCCC", "C1CCCC1",
                           "C1CC2CC12", "C123C4C1C2C34", "CCNCCCN", "c1ccccc1",
                           "c1ccncc1", "CC(C)C", "CO", "CCOC", "CNC", "CC=O"}

InitGen ==
    /\ colType = "VARCHAR"
    /\ src \in GenTexts \X GenTexts
    /\ left = <<>>
    /\ right = <<>>
    /\ op = "start"
    /\ result = None
    /\ calls = <<>>
    /\ NoChunk

\* dalke_fp of the two molecules
dalke_fp_of_smiles ==
    /\ op = "start"
    /\ colType = "VARCHAR"
    /\ left' = make_dalke_fp(rdkit_mol_from_smiles(src[1]).mol)
    /\ right' = make_dalke_fp(rdkit_mol_from_smiles(src[2]).mol)
    /\ colType' = "DalkeFP"
    /\ op' = "none"
    /\ UNCHANGED <<src, result, calls>>
    /\ UNCHANGED batchVars

NextGen ==
    \/ dalke_fp_of_smiles
    \/ dalke_fp_contains_func

SpecGen == InitGen /\ [][NextGen]_vars

-----------------------------------------------------------------------------
(* heavy_atom_bucket on the heavy-atom counts of two molecules             *)

\* the largest heavy-atom count of the rows
MaxAtoms == 200

InitBucket ==
    /\ colType = "count"
    /\ src = <<"count", "count">>
    /\ left \in 0..MaxAtoms
    /\ right \in 0..MaxAtoms
    /\ op = "none"
    /\ result = None
    /\ calls = <<>>
    /\ NoChunk

\* uint8_t ha_bucket = heavy_atom_bucket(numHeavyAtoms), for both counts
heavy_atom_bucket_call ==
    /\ colType = "count"
    /\ op = "none"
    /\ Ran("heavy_atom_bucket",
           [res |-> [tag |-> "buckets",
                     v |-> <<heavy_atom_bucket(left), heavy_atom_bucket(right)>>],
            calls |-> <<>>])

NextBucket == heavy_atom_bucket_call

SpecBucket == InitBucket /\ [][NextBucket]_vars

-----------------------------------------------------------------------------
(* A chunk of rows run by one executor.  The process starts unloaded with  *)
(* the catalog its build was compiled with; LoadInternal registers the     *)
(* functions; UnaryExecutor / BinaryExecutor then call the row lambda on   *)
(* the rows of the chunk in order.  An exception that leaves the lambda    *)
(* leaves the executor and the function: the chunk gets no result.         *)

\* std::string rdkit_mol_to_smiles(RDKit::ROMol mol)
rdkit_mol_to_smiles(mol) == MolToSmiles(mol, TRUE)

\* the lambda of mol_from_smiles: catch (...) sets the row invalid
mol_from_smiles_lambda(smiles) ==
    LET mol == rdkit_mol_from_smiles(smiles)
    IN  IF ~mol.ok THEN Null
        ELSE Blob(rdkit_mol_to_binary_mol(mol.mol))

\* the lambda of umbramol_from_smiles: catch (...) sets the row invalid
umbramol_from_smiles_lambda(smiles) ==
    LET mol == rdkit_mol_from_smiles(smiles)
    IN  IF ~mol.ok \/ ~make_dalke_fp_assert(mol.mol) THEN Null
        ELSE Blob(get_umbra_mol_string(mol.mol))

\* the lambda of VarcharToMolCast that never clears all_converted
VarcharToMolCast_lambda_quiet(smiles, params) ==
    LET mol == rdkit_mol_from_smiles(smiles)
    IN  IF mol.ok
        THEN [res |-> Blob(rdkit_mol_to_binary_mol(mol.mol)), failed |-> FALSE]
        ELSE [res |-> Null, failed |-> FALSE]

\* HandleCastError::AssignError(error_msg, parameters) raises a
\* ConversionException when parameters.error_message is null (a plain CAST);
\* it stores the message when there is a string to store it in (TRY_CAST)
AssignErrorRaises(params) == params.error_message = "nullptr"

\* the lambda of VarcharToMolCast; failed: it cleared all_converted
VarcharToMolCast_lambda(smiles, params) ==
    LET mol == rdkit_mol_from_smiles(smiles)
    IN  IF mol.ok
        THEN [res |-> Blob(rdkit_mol_to_binary_mol(mol.mol)), failed |-> FALSE]
        ELSE IF params.strict
        THEN [res |-> Error("ConversionException"), failed |-> FALSE]
        ELSE IF AssignErrorRaises(params)
        THEN [res |-> Error("ConversionException"), failed |-> FALSE]
        ELSE [res |-> Null, failed |-> TRUE]

\* the lambda of VarcharToUmbraMolCast
VarcharToUmbraMolCast_lambda(smiles, params) ==
    LET mol == rdkit_mol_from_smiles(smiles)
    IN  IF mol.ok /\ make_dalke_fp_assert(mol.mol)
        THEN [res |-> Blob(get_umbra_mol_string(mol.mol)), failed |-> FALSE]
        ELSE IF params.strict
        THEN [res |-> Error("ConversionException"), failed |-> FALSE]
        ELSE IF AssignErrorRaises(params)
        THEN [res |-> Error("ConversionException"), failed |-> FALSE]
        ELSE [res |-> Null, failed |-> TRUE]

\* the lambda of MolToVarcharCast: no try block
MolToVarcharCast_lambda(pickle) ==
    LET rdkit_mol == rdkit_binary_mol_to_mol(pickle)
    IN  IF ~rdkit_mol.ok THEN Error("MolPicklerException")
        ELSE Text(rdkit_mol_to_smiles(rdkit_mol.mol))

\* the lambda of UmbraMolToVarcharCast: no try block
UmbraMolToVarcharCast_lambda(b_umbra_mol) ==
    LET bmol == GetBinaryMol(b_umbra_mol)
    IN  IF ~bmol.ok THEN Error("std::length_error")
        ELSE LET rdkit_mol == rdkit_binary_mol_to_mol(bmol.bytes)
             IN  IF ~rdkit_mol.ok THEN Error("MolPicklerException")
                 ELSE Text(rdkit_mol_to_smiles(rdkit_mol.mol))

\* the functions and casts by the type of their argument columns
TextFns == {"mol_from_smiles", "umbramol_from_smiles",
            "VarcharToMolCast", "VarcharToUmbraMolCast"}
CastFns == {"VarcharToMolCast", "VarcharToUmbraMolCast"}
BareFns == {"dalke_fp_from_mol", "mol_to_umbramol", "MolToVarcharCast",
            "is_substruct_mol", "substruct_count_mol", "is_exact_match_mol"}
PrefixedFns == {"UmbraMolToVarcharCast", "is_substruct_umbramol",
                "substruct_count_umbramol", "is_exact_match_umbramol"}

\* the functions that call make_dalke_fp
GeneratingFns == {"umbramol_from_smiles", "VarcharToUmbraMolCast",
                  "dalke_fp_from_mol", "mol_to_umbramol"}

\* what the lambda of function f does on one row: its result, and whether it
\* cleared all_converted
ExecRow(f, row) ==
    LET plain(r) == [res |-> r, failed |-> FALSE]
    IN  CASE f = "mol_from_smiles" -> plain(mol_from_smiles_lambda(row.l))
          [] f = "umbramol_from_smiles" -> plain(umbramol_from_smiles_lambda(row.l))
          [] f = "VarcharToMolCast" -> VarcharToMolCast_lambda(row.l, parameters)
          [] f = "VarcharToUmbraMolCast" -> VarcharToUmbraMolCast_lambda(row.l, parameters)
          [] f = "dalke_fp_from_mol" -> plain(dalke_fp_from_mol_row(row.l).res)
          [] f = "mol_to_umbramol" -> plain(mol_to_umbramol_row(row.l).res)
          [] f = "MolToVarcharCast" -> plain(MolToVarcharCast_lambda(row.l))
          [] f = "UmbraMolToVarcharCast" -> plain(UmbraMolToVarcharCast_lambda(row.l))
          [] f = "is_substruct_mol" -> plain(is_substruct_rdkit(row.l, row.r).res)
          [] f = "substruct_count_mol" -> plain(substruct_count_rdkit(row.l, row.r).res)
          [] f = "is_exact_match_mol" -> plain(is_exact_match_mol_row(row.l, row.r).res)
          [] f = "is_substruct_umbramol" ->
                plain(is_substruct_umbramol(row.l, row.r, 0, 0).res)
          [] f = "substruct_count_umbramol" ->
                plain(substruct_count_umbramol_row(row.l, row.r, 0, 0).res)
          [] f = "is_exact_match_umbramol" ->
                plain(is_exact_match_umbramol_row(row.l, row.r).res)

\* dalke_counts edited inconsistently: one threshold of the first entry
\* removed (54 bits), one threshold added to it (56 bits)
dalke_counts_short == [dalke_counts EXCEPT ![1] = SubSeq(@, 1, Len(@) - 1)]
dalke_counts_long == [dalke_counts EXCEPT ![1] = Append(@, "6")]

\* dalke_counts with a pattern that is no SMILES in its third entry
dalke_counts_unparsable == [dalke_counts EXCEPT ![3] = <<"C(", "1">>]

\* the loop over the catalog counts when SmilesToMol returned nullptr for a
\* pattern: SubstructMatch(mol, *dalke_fp_mol, params) dereferences the null
\* pointer, and where the call returns the match vector has any size n
FragmentLoopNullPattern(counts, mol, n) ==
    UNION {ThresholdLoop(counts[k], 2,
               IF SmilesParses(counts[k][1])
               THEN SubstructMatchCount(mol, SmilesGraph(counts[k][1]), maxMatches)
               ELSE n,
               {}, curBitAt(counts, k)).fp : k \in 1..Len(counts)}

\* the row of function f gets as far as make_dalke_fp, and SmilesToMol fails
\* on a pattern of the catalog
PatternFailure(f, row) ==
    /\ f \in GeneratingFns
    /\ IF f \in TextFns THEN rdkit_mol_from_smiles(row.l).ok
       ELSE rdkit_binary_mol_to_mol(row.l).ok
    /\ \E k \in 1..Len(catalog) : ~SmilesParses(catalog[k][1])

\* the number of rows of a chunk
BatchLen == 3

\* stored values: the bare and the prefixed encoding of a text, written by a
\* build with the catalog as shipped
StoredBare(t) == pickleMol(SmilesGraph(t))
StoredPrefixed(t) ==
    LET G == SmilesGraph(t)
    IN  U64ToBytes(dalke_fp_tail(FragmentLoop(dalke_counts, G).fp, G)) \o pickleMol(G)

\* a stored value whose payload lost its last byte
Truncated(b) == SubSeq(b, 1, Len(b) - 1)

\* the rows a chunk of function f is made of: l the first argument, r the
\* second (the query) where f takes two
RowsOf(f) ==
    IF f \in TextFns
    THEN {[l |-> t, r |-> <<>>] : t \in {"CCO", "[NH4+]", "C1CC"}}
    ELSE IF f \in BareFns
    THEN {[l |-> b, r |-> StoredBare("C")] :
             b \in {StoredBare("CCO"), StoredBare("C"), Truncated(StoredBare("CC"))}}
    ELSE {[l |-> b, r |-> StoredPrefixed("C")] :
             b \in {StoredPrefixed("CCO"), StoredPrefixed("C"),
                    Truncated(StoredPrefixed("CC"))}}

\* no single row is in progress
NoRow ==
    /\ colType = "chunk"
    /\ src = <<>>
    /\ left = <<>>
    /\ right = <<>>
    /\ op = "none"
    /\ result = None
    /\ calls = <<>>

InitBatch ==
    /\ NoRow
    /\ catalog \in {dalke_counts, dalke_counts_short, dalke_counts_long,
                    dalke_counts_unparsable}
    /\ build \in {"debug", "release"}
    /\ loaded = FALSE
    /\ fn \in TextFns \cup BareFns \cup PrefixedFns
    /\ parameters \in (IF fn \in CastFns
                        THEN [strict : BOOLEAN, error_message : {"nullptr", "set"}]
                        ELSE {[strict |-> FALSE, error_message |-> "nullptr"]})
    /\ chunk \in [1..BatchLen -> RowsOf(fn)]
    /\ out = <<>>
    /\ status = "idle"
    /\ all_converted = TRUE
    /\ frames = <<>>
    /\ pc = <<>>

\* LoadInternal: registers types, casts and functions; it does not look at
\* dalke_counts
LoadInternal ==
    /\ ~loaded
    /\ loaded' = TRUE
    /\ UNCHANGED <<rowVars, catalog, build, fn, parameters, chunk, out, status,
                   all_converted, frames, pc>>

\* the function or cast is called on the chunk
Execute ==
    /\ loaded
    /\ status = "idle"
    /\ status' = "running"
    /\ all_converted' = TRUE
    /\ UNCHANGED <<rowVars, catalog, build, loaded, fn, parameters, chunk, out,
                   frames, pc>>

\* the executor calls the lambda on the next row and stores what it returns
ExecuteRow ==
    /\ status = "running"
    /\ Len(out) < Len(chunk)
    /\ ~PatternFailure(fn, chunk[Len(out) + 1])
    /\ LET r == ExecRow(fn, chunk[Len(out) + 1])
       IN  /\ r.res.tag # "error"
           /\ out' = Append(out, r.res)
           /\ all_converted' = (all_converted /\ ~r.failed)
    /\ UNCHANGED <<rowVars, catalog, build, loaded, fn, parameters, chunk, status,
                   frames, pc>>

\* the lambda raises on the next row: the exception leaves the executor
ExecuteRaise ==
    /\ status = "running"
    /\ Len(out) < Len(chunk)
    /\ ~PatternFailure(fn, chunk[Len(out) + 1])
    /\ ExecRow(fn, chunk[Len(out) + 1]).res.tag = "error"
    /\ status' = "raised"
    /\ UNCHANGED <<rowVars, catalog, build, loaded, fn, parameters, chunk, out,
                   all_converted, frames, pc>>

\* the lambda runs make_dalke_fp on the next row and SmilesToMol fails on a
\* pattern.  Where it raises, make_dalke_fp throws InvalidInputException and
\* the catch (...) of the lambda sets the row invalid (the cast raises or
\* records a ConversionException).  Where it returns nullptr, SubstructMatch
\* runs on the dereferenced null pointer: the process crashes, or the call
\* returns some match vector and the row gets a fingerprint.
ExecuteRowBadPattern ==
    /\ status = "running"
    /\ Len(out) < Len(chunk)
    /\ PatternFailure(fn, chunk[Len(out) + 1])
    /\ LET row == chunk[Len(out) + 1]
           mol == IF fn \in TextFns THEN rdkit_mol_from_smiles(row.l).mol
                  ELSE rdkit_binary_mol_to_mol(row.l).mol
           raised == fn = "VarcharToUmbraMolCast"
                        /\ (parameters.strict \/ AssignErrorRaises(parameters))
           value(n) ==
               LET fp == dalke_fp_tail(FragmentLoopNullPattern(catalog, mol, n), mol)
               IN  IF fn = "dalke_fp_from_mol" THEN Fp(fp)
                   ELSE Blob(SubSeq(U64ToBytes(fp), 1, DALKE_FP_PREFIX_BYTES)
                             \o rdkit_mol_to_binary_mol(mol))
       IN  \/ /\ raised
              /\ status' = "raised"
              /\ UNCHANGED <<out, all_converted, calls>>
           \/ /\ ~raised
              /\ out' = Append(out, Null)
              /\ all_converted' = (all_converted /\ fn # "VarcharToUmbraMolCast")
              /\ UNCHANGED <<status, calls>>
           \/ /\ calls' = Append(calls, Call("SubstructMatch", "nullptr", 0))
              /\ \/ /\ status' = "crashed"
                    /\ UNCHANGED <<out, all_converted>>
                 \/ /\ \E n \in {0, maxMatches} : out' = Append(out, value(n))
                    /\ UNCHANGED <<status, all_converted>>
    /\ UNCHANGED <<colType, src, left, right, op, result,
                   catalog, build, loaded, fn, parameters, chunk, frames, pc>>

\* every row is done: the function returns
ExecuteReturn ==
    /\ status = "running"
    /\ Len(out) = Len(chunk)
    /\ status' = "done"
    /\ UNCHANGED <<rowVars, catalog, build, loaded, fn, parameters, chunk, out,
                   all_converted, frames, pc>>

NextBatch ==
    \/ LoadInternal
    \/ Execute
    \/ ExecuteRow
    \/ ExecuteRaise
    \/ ExecuteRowBadPattern
    \/ ExecuteReturn

SpecBatch == InitBatch /\ [][NextBatch]_vars

-----------------------------------------------------------------------------
(* Worker threads.  The host runs the same function on different rows on   *)
(* several threads.  Each worker takes its own row through                 *)
(* umbramol_from_smiles (parse, make_dalke_fp one catalog entry at a time, *)
(* encode), then decodes the fingerprint of the buffer it built, converts  *)
(* the buffer to bare and compares it with a stored query.  The steps of   *)
(* the workers interleave in every order.                                  *)

\* the worker threads; worker w has row w of the chunk
Workers == 1..2

\* the SMILES texts of the workers' rows
WorkerTexts == {"CCO", "[NH4+]", "C1CC1"}

\* all locals of make_dalke_fp in one place shared by every call, as if they
\* were static
Frame_static(w) == 1

\* the locals of make_dalke_fp (mol, fp, curBit, the loop position) live in
\* the frame of the call: one frame per worker
Frame(w) == w

\* what a worker has produced for its row; None where it has not got there
NoOut == [umbramol |-> None, fp |-> None, mol |-> None, match |-> None]

InitWorkers ==
    /\ NoRow
    /\ catalog = dalke_counts
    /\ build = "release"
    /\ loaded = TRUE
    /\ fn = "umbramol_from_smiles"
    /\ parameters = [strict |-> FALSE, error_message |-> "nullptr"]
    /\ chunk \in [Workers -> WorkerTexts]
    /\ out = [w \in Workers |-> NoOut]
    /\ status = "running"
    /\ all_converted = TRUE
    /\ frames = [w \in Workers |-> [mol |-> NoMol, fp |-> {}, curBit |-> 0, k |-> 1]]
    /\ pc = [w \in Workers |-> "start"]

\* rdkit_mol_from_smiles, then make_dalke_fp up to its loop: fp = 0, curBit = 0
W_start(w) ==
    /\ pc[w] = "start"
    /\ frames' = [frames EXCEPT ![Frame(w)] =
                     [mol |-> rdkit_mol_from_smiles(chunk[w]).mol,
                      fp |-> {}, curBit |-> 0, k |-> 1]]
    /\ pc' = [pc EXCEPT ![w] = "loop"]
    /\ UNCHANGED <<rowVars, catalog, build, loaded, fn, parameters, chunk, out,
                   status, all_converted>>

\* one iteration of for (const auto &frag : dalke_counts)
W_frag(w) ==
    /\ pc[w] = "loop"
    /\ LET f == frames[Frame(w)]
       IN  /\ f.k <= Len(catalog)
           /\ LET frag == catalog[f.k]
                  nMatches == SubstructMatchCount(f.mol, SmilesGraph(frag[1]),
                                                  maxMatches)
                  t == ThresholdLoop(frag, 2, nMatches, f.fp, f.curBit)
              IN  frames' = [frames EXCEPT ![Frame(w)] =
                                [mol |-> f.mol, fp |-> t.fp, curBit |-> t.curBit,
                                 k |-> f.k + 1]]
    /\ UNCHANGED <<rowVars, catalog, build, loaded, fn, parameters, chunk, out,
                   status, all_converted, pc>>

\* the rest of make_dalke_fp and of get_umbra_mol_string: the row's buffer
W_encode(w) ==
    /\ pc[w] = "loop"
    /\ LET f == frames[Frame(w)]
       IN  /\ f.k > Len(catalog)
           /\ out' = [out EXCEPT ![w].umbramol =
                         Blob(SubSeq(U64ToBytes(dalke_fp_tail(f.fp, f.mol)),
                                     1, DALKE_FP_PREFIX_BYTES)
                              \o rdkit_mol_to_binary_mol(f.mol))]
    /\ pc' = [pc EXCEPT ![w] = "encoded"]
    /\ UNCHANGED <<rowVars, catalog, build, loaded, fn, parameters, chunk,
                   status, all_converted, frames>>

\* dalke_fp_from_umbramol on the row's buffer
W_decode(w) ==
    /\ pc[w] = "encoded"
    /\ out' = [out EXCEPT ![w].fp = dalke_fp_from_umbramol_row(out[w].umbramol.v).res]
    /\ pc' = [pc EXCEPT ![w] = "decoded"]
    /\ UNCHANGED <<rowVars, catalog, build, loaded, fn, parameters, chunk,
                   status, all_converted, frames>>

\* umbramol_to_mol on the row's buffer
W_convert(w) ==
    /\ pc[w] = "decoded"
    /\ out' = [out EXCEPT ![w].mol = umbramol_to_mol_row(out[w].umbramol.v).res]
    /\ pc' = [pc EXCEPT ![w] = "converted"]
    /\ UNCHANGED <<rowVars, catalog, build, loaded, fn, parameters, chunk,
                   status, all_converted, frames>>

\* is_substruct on the row's buffer and the stored query C
W_compare(w) ==
    /\ pc[w] = "converted"
    /\ out' = [out EXCEPT ![w].match =
                  is_substruct_umbramol(out[w].umbramol.v, StoredPrefixed("C"),
                                        0, 0).res]
    /\ pc' = [pc EXCEPT ![w] = "done"]
    /\ UNCHANGED <<rowVars, catalog, build, loaded, fn, parameters, chunk,
                   status, all_converted, frames>>

NextWorkers ==
    \E w \in Workers :
        \/ W_start(w)
        \/ W_frag(w)
        \/ W_encode(w)
        \/ W_decode(w)
        \/ W_convert(w)
        \/ W_compare(w)

SpecWorkers == InitWorkers /\ [][NextWorkers]_vars

-----------------------------------------------------------------------------
(* dalke_fp_contains_func on the cross join of a DalkeFP column with       *)
(* itself: every ordered pair of the column's three values is one row.     *)
(* DalkeFP is an alias of UBIGINT, so a value may have any of its 64 bits  *)
(* set, bit 63 included.                                                   *)

\* the values of the column: fragment bit 54 or none, heavy-atom buckets 7
\* and 8 and ring buckets 1 and 2 (each pair ordered as numbers but not as
\* bit sets), and the flag bits 61, 62 and 63
OrderSample ==
    {BitOr(BitOr(frag, Shl(NatToBits(sz), 55)),
           BitOr(Shl(NatToBits(rg), 59), flags)) :
        frag \in {{}, {54}}, sz \in {7, 8}, rg \in {1, 2},
        flags \in {{}, {61}, {62}, {63}, {61, 62, 63}}}

InitOrder ==
    /\ NoRow
    /\ catalog = dalke_counts
    /\ build = "release"
    /\ loaded = TRUE
    /\ fn = "dalke_fp_contains"
    /\ parameters = [strict |-> FALSE, error_message |-> "nullptr"]
    /\ chunk \in [1..3 -> OrderSample]
    /\ out = <<>>
    /\ status = "idle"
    /\ all_converted = TRUE
    /\ frames = <<>>
    /\ pc = <<>>

\* BinaryExecutor::Execute calls the lambda on every row <<target, query>>
dalke_fp_contains_cross ==
    /\ fn = "dalke_fp_contains"
    /\ status = "idle"
    /\ out' = [p \in (1..3) \X (1..3) |->
                  Bool(dalke_fp_contains(chunk[p[1]], chunk[p[2]]))]
    /\ status' = "done"
    /\ UNCHANGED <<rowVars, catalog, build, loaded, fn, parameters, chunk,
                   all_converted, frames, pc>>

NextOrder == dalke_fp_contains_cross

SpecOrder == InitOrder /\ [][NextOrder]_vars

-----------------------------------------------------------------------------
(* Sequences of encode and convert operations on the two columns of a row: *)
(* the columns are encoded from text by a function or by the cast, and a   *)
(* conversion of both columns may be stored as the new columns any number  *)
(* of times before a function runs on the row.                             *)

\* CAST(text AS UmbraMol) on both texts of the row (both texts parse)
VarcharToUmbraMolCast ==
    /\ op = "start"
    /\ colType = "UmbraMol"
    /\ LET l == VarcharToUmbraMolCast_lambda(src[1], parameters).res
           r == VarcharToUmbraMolCast_lambda(src[2], parameters).res
       IN  /\ l.tag = "blob" /\ r.tag = "blob"
           /\ left' = l.v
           /\ right' = r.v
    /\ op' = "none"
    /\ UNCHANGED <<colType, src, result, calls>>
    /\ UNCHANGED batchVars

\* mol_to_umbramol of both columns, stored as the new columns
mol_to_umbramol_columns ==
    /\ op = "none"
    /\ colType = "Mol"
    /\ LET l == mol_to_umbramol_row(left).res
           r == mol_to_umbramol_row(right).res
       IN  /\ l.tag = "blob" /\ r.tag = "blob"
           /\ left' = l.v
           /\ right' = r.v
    /\ colType' = "UmbraMol"
    /\ src' = [i \in 1..2 |-> IF src[i] = "blob" THEN "mol_to_umbramol" ELSE src[i]]
    /\ UNCHANGED <<op, result, calls>>
    /\ UNCHANGED batchVars

\* umbramol_to_mol of both columns, stored as the new columns
umbramol_to_mol_columns ==
    /\ op = "none"
    /\ colType = "UmbraMol"
    /\ LET l == umbramol_to_mol_row(left).res
           r == umbramol_to_mol_row(right).res
       IN  /\ l.tag = "blob" /\ r.tag = "blob"
           /\ left' = l.v
           /\ right' = r.v
    /\ colType' = "Mol"
    /\ UNCHANGED <<src, op, result, calls>>
    /\ UNCHANGED batchVars

NextChain ==
    \/ Next
    \/ VarcharToUmbraMolCast
    \/ mol_to_umbramol_columns
    \/ umbramol_to_mol_columns

SpecChain == Init /\ [][NextChain]_vars

-----------------------------------------------------------------------------
(* Claims                                                                  *)

\* the value of the bit field of fp that starts at bit lo and is w bits wide
Field(fp, lo, w) == BitsToNat({i - lo : i \in {j \in fp : j >= lo /\ j < lo + w}})

MolOf(side) == SmilesGraph(src[side])

FromSmiles == src[1] # "blob" /\ src[2] # "blob"

\* every logged read stays inside the buffer it reads
ReadsInBounds ==
    \A i \in 1..Len(calls) :
        calls[i].n <= Len(IF calls[i].arg = "right" THEN right ELSE left)

\* the payloads were handed to the deserializer
Deserialized == \E i \in 1..Len(calls) : calls[i].f = "molFromPickle"

\* the calls of the log that went to function f
CallsTo(f) == {i \in 1..Len(calls) : calls[i].f = f}

\* C1: whenever the exact subgraph match of is_substruct finds the query in
\* the target, dalke_fp_contains of the two molecules' fingerprints is true
\* (the screen has no false negatives).
C1_ScreenHasNoFalseNegative ==
    (op = "is_substruct_mol" /\ FromSmiles /\ result = Bool(TRUE)) =>
        dalke_fp_contains(make_dalke_fp(molFromPickle(left).mol),
                          make_dalke_fp(molFromPickle(right).mol))

\* the payload of a prefixed buffer of at least 8 bytes: the bytes after byte 8
PayloadOf(buf) == [k \in 1..(Len(buf) - 8) |-> buf[8 + k]]

\* the little-endian value of the first 8 bytes of a buffer of at least 8 bytes
HeaderOf(buf) == {i \in U64Bits : (buf[(i \div 8) + 1] \div Pow2(i % 8)) % 2 = 1}

\* C2: is_substruct on two prefixed buffers returns false without
\* deserializing when dalke_fp_contains(target fp, query fp) is false;
\* otherwise, and always on bare buffers, it deserializes both payloads, runs
\* one target-contains-query match with chirality off and returns its result.
C2_SubstructScreenThenMatch ==
    /\ (op = "is_substruct_umbramol" /\ Len(left) >= 8 /\ Len(right) >= 8) =>
          IF ~dalke_fp_contains(HeaderOf(left), HeaderOf(right))
          THEN result = Bool(FALSE) /\ ~Deserialized
          ELSE /\ Deserialized
               /\ (PickleWellFormed(PayloadOf(left))
                     /\ PickleWellFormed(PayloadOf(right))) =>
                     /\ Cardinality(CallsTo("molFromPickle")) = 2
                     /\ Cardinality(CallsTo("SubstructMatch")) = 1
                     /\ result = Bool(SubstructMatch(
                                     molFromPickle(PayloadOf(left)).mol,
                                     molFromPickle(PayloadOf(right)).mol, FALSE))
    /\ op = "is_substruct_mol" =>
          /\ Deserialized
          /\ (PickleWellFormed(left) /\ PickleWellFormed(right)) =>
                /\ Cardinality(CallsTo("molFromPickle")) = 2
                /\ Cardinality(CallsTo("SubstructMatch")) = 1
                /\ result = Bool(SubstructMatch(molFromPickle(left).mol,
                                                molFromPickle(right).mol, FALSE))

\* C2 witness: on two encoded molecules the screen failed and is_substruct
\* returned false with no payload deserialized.
C2_Witness ==
    /\ op = "is_substruct_umbramol"
    /\ FromSmiles
    /\ ~dalke_fp_contains(HeaderOf(left), HeaderOf(right))
    /\ result = Bool(FALSE)
    /\ ~Deserialized

\* C4: the prefixed encoding of a molecule is the 8 bytes of its fingerprint,
\* least significant first, followed by its bare encoding (length 8 + N);
\* decoding the fingerprint gives make_dalke_fp of the molecule and decoding
\* the payload gives the bare encoding byte for byte.
C4_PrefixedLayoutRoundTrip ==
    (colType = "UmbraMol" /\ op # "start" /\ src[1] # "blob") =>
        LET G == MolOf(1)
            fp == make_dalke_fp(G)
            bare == rdkit_mol_to_binary_mol(G)
        IN  /\ Len(left) = 8 + Len(bare)
            /\ \A k \in 0..7 : left[k + 1] = Field(fp, 8 * k, 8)
            /\ \A k \in 1..Len(bare) : left[8 + k] = bare[k]
            /\ op = "dalke_fp_from_umbramol" => result = Fp(fp)
            /\ op = "umbramol_to_mol" => result = Blob(bare)

\* C4 witness: the payload of encoded ethanol was decoded.
C4_Witness ==
    /\ op = "umbramol_to_mol"
    /\ src[1] = "CCO"
    /\ result = Blob(rdkit_mol_to_binary_mol(SmilesGraph("CCO")))

\* C5: dalke_fp_from_umbramol on a buffer shorter than 8 bytes returns NULL
\* and reads nothing past the buffer's end; on a longer buffer it returns the
\* first 8 bytes as a little-endian 64-bit value.
C5_DecodeFingerprintChecksLength ==
    op = "dalke_fp_from_umbramol" =>
        /\ ReadsInBounds
        /\ IF Len(left) < 8 THEN result = Null
           ELSE result = Fp(HeaderOf(left))

\* C5 witness: a buffer of length 5 was rejected.
C5_Witness ==
    /\ op = "dalke_fp_from_umbramol"
    /\ Len(left) = 5
    /\ result = Null

\* the functions that take prefixed buffers and how many arguments they take
PrefixedBinaryOps == {"is_substruct_umbramol", "is_exact_match_umbramol"}
PrefixedUnaryOps == {"umbramol_to_mol", "dalke_fp_from_umbramol"}

\* C6: every function that takes a prefixed buffer treats a buffer shorter
\* than the 8-byte header as NULL and reads no byte at or past its end.
C6_ShortPrefixedBufferIsNull ==
    /\ (op \in PrefixedBinaryOps /\ (Len(left) < 8 \/ Len(right) < 8)) =>
          result = Null /\ ReadsInBounds
    /\ (op \in PrefixedUnaryOps /\ Len(left) < 8) =>
          result = Null /\ ReadsInBounds

\* C7: decoding the payload of a prefixed buffer of length L <= 8 completes
\* and gives the empty payload; for L > 8 it gives the L - 8 bytes after
\* byte 8.
C7_DecodePayloadOfShortBufferIsEmpty ==
    op = "umbramol_to_mol" =>
        IF Len(left) <= 8 THEN result = Blob(<<>>)
        ELSE result = Blob(PayloadOf(left))

\* C8: is_exact_match on two prefixed buffers returns false without
\* deserializing whenever the two fingerprints differ in any of bits 0-54.
C8_ExactMatchGateOnStructuralBits ==
    (op = "is_exact_match_umbramol" /\ Len(left) >= 8 /\ Len(right) >= 8
       /\ HeaderOf(left) \cap (0..54) # HeaderOf(right) \cap (0..54)) =>
        result = Bool(FALSE) /\ ~Deserialized

\* C9: is_exact_match(A, B) = is_exact_match(B, A) for two bare and for two
\* prefixed buffers.
C9_ExactMatchSymmetric ==
    /\ op = "is_exact_match_mol" =>
          result = is_exact_match_mol_row(right, left).res
    /\ op = "is_exact_match_umbramol" =>
          result = is_exact_match_umbramol_row(right, left).res

\* C9 witness: ethane against methane passed the prefix comparison, matched
\* in one direction only and is_exact_match returned false.
C9_Witness ==
    /\ op = "is_exact_match_umbramol"
    /\ src = <<"CC", "C">>
    /\ Cardinality(CallsTo("SubstructMatch")) = 2
    /\ result = Bool(FALSE)

C12_ConversionRoundTrip ==
    (op = "umbramol_to_mol" /\ src[1] # "blob") =>
        /\ result.tag = "blob"
        /\ LET back == mol_to_umbramol_row(result.v).res
           IN  /\ back.tag = "blob"
               /\ Len(back.v) >= 8
               /\ HeaderOf(back.v) = HeaderOf(left)
               /\ PayloadOf(back.v) = PayloadOf(left)

\* C12 witness: the encoded ammonium ion was converted to bare, and
\* converting that back gives the buffer the conversion started from, with
\* the charge bit 62 in its fingerprint.
C12_Witness ==
    /\ op = "umbramol_to_mol"
    /\ src[1] = "[NH4+]"
    /\ result.tag = "blob"
    /\ mol_to_umbramol_row(result.v).res = Blob(left)
    /\ 62 \in HeaderOf(left)

\* the per-row operations that deserialize a payload
PerRowOps == BareFns \cup PrefixedFns

\* the payloads of a row of function f deserialize
RowDeserializes(f, row) ==
    IF f \in BareFns
    THEN PickleWellFormed(row.l) /\ PickleWellFormed(row.r)
    ELSE PickleWellFormed(PayloadOf(row.l)) /\ PickleWellFormed(PayloadOf(row.r))

\* C13: when the payload of one row of a chunk fails to deserialize in
\* is_substruct, substruct_count, is_exact_match, dalke_fp of a bare buffer,
\* mol_to_umbramol or a cast to VARCHAR, the function still returns, every
\* row has a result and every row whose payloads deserialize has a value.
C13_RowFailureIsIsolated ==
    (catalog = dalke_counts /\ fn \in PerRowOps /\ status \in {"done", "raised"}) =>
        /\ status = "done"
        /\ Len(out) = Len(chunk)
        /\ \A i \in 1..Len(chunk) :
              RowDeserializes(fn, chunk[i]) => out[i].tag \notin {"null", "error"}

\* the buffer a text row of function f is encoded to
EncodingOf(f, t) ==
    IF f \in {"mol_from_smiles", "VarcharToMolCast"}
    THEN StoredBare(t) ELSE StoredPrefixed(t)

\* the cast runs where a failing row is an error of the statement: it is
\* strict, or it has no error_message to record the failure in
StrictContext == parameters.strict \/ AssignErrorRaises(parameters)

C17_BadCatalogAbortsInitialisation ==
    FragmentLoop(catalog, NoMol).curBit # 55 =>
        /\ ~loaded
        /\ fn \in GeneratingFns =>
              \A i \in 1..Len(out) : out[i].tag \notin {"fp", "blob"}

RECURSIVE CatalogPairs(_)
\* the (pattern, threshold) pairs of a catalog: entries in catalog order,
\* the thresholds of an entry in the order they are listed
CatalogPairs(counts) ==
    IF counts = <<>> THEN <<>>
    ELSE [i \in 1..(Len(Head(counts)) - 1) |->
             <<Head(counts)[1], stoi(Head(counts)[i + 1])>>]
         \o CatalogPairs(Tail(counts))

dalke_pairs == CatalogPairs(dalke_counts)

\* C15: dalke_counts has exactly 55 (pattern, threshold) pairs, and bit k of
\* a generated fingerprint (k = 0..54) is set exactly when the molecule has
\* at least threshold(k) matches of pattern(k), where pair k is the k-th pair
\* in catalog order; curBit is 55 when the loop over the catalog ends.
C15_FragmentBitIsPairOrdinal ==
    (op \in {"dalke_fp_from_mol", "dalke_fp_from_umbramol"} /\ src[1] # "blob") =>
        /\ Len(dalke_pairs) = 55
        /\ FragmentLoop(catalog, MolOf(1)).curBit = 55
        /\ result.tag = "fp"
        /\ \A k \in 0..54 :
              k \in result.v <=>
                  SubstructMatchCount(MolOf(1), SmilesGraph(dalke_pairs[k + 1][1]),
                                      maxMatches) >= dalke_pairs[k + 1][2]

\* C15 witness: the fingerprint of ethanol has bit 2 (O at least once, the
\* third pair) and bit 45 (CC at least once) and not bit 0 (O at least
\* twice, the first pair).
C15_Witness ==
    /\ op = "dalke_fp_from_mol"
    /\ src[1] = "CCO"
    /\ result.tag = "fp"
    /\ 2 \in result.v /\ 45 \in result.v /\ 0 \notin result.v
    /\ dalke_pairs[3] = <<"O", 1>> /\ dalke_pairs[46] = <<"CC", 1>>

\* the bare buffer inside an argument of the current row
BareOf(buf) == IF colType = "UmbraMol" THEN PayloadOf(buf) ELSE buf

\* C18: is_exact_match, once both payloads are deserialized, runs the
\* subgraph match in both directions; if exactly one direction succeeds it
\* returns false, otherwise it returns true exactly when the canonical texts
\* (MolToSmiles without stereo, as mol_cmp asks for them) are equal.
C18_ExactMatchTwoPhase ==
    (op \in {"is_exact_match_mol", "is_exact_match_umbramol"} /\ Deserialized
       /\ PickleWellFormed(BareOf(left)) /\ PickleWellFormed(BareOf(right))) =>
        LET A == molFromPickle(BareOf(left)).mol
            B == molFromPickle(BareOf(right)).mol
            ab == SubstructMatch(A, B, FALSE)
            ba == SubstructMatch(B, A, FALSE)
        IN  /\ Cardinality(CallsTo("SubstructMatch")) = 2
            /\ result = Bool(IF ab # ba THEN FALSE
                             ELSE MolToSmiles(A, FALSE) = MolToSmiles(B, FALSE))

\* C18 witness: the ammonium ion contains ammonia as a query but not the
\* other way round; is_exact_match returned false after the two matches,
\* without asking for canonical texts.
C18_Witness ==
    /\ op = "is_exact_match_mol"
    /\ src = <<"[NH4+]", "N">>
    /\ Cardinality(CallsTo("SubstructMatch")) = 2
    /\ CallsTo("MolToSmiles") = {}
    /\ result = Bool(FALSE)

\* the number of matches of catalog entry k in mol, matches on the same atoms
\* counted once
MatchCount(mol, k) == SubstructMatchCount(mol, SmilesGraph(dalke_counts[k][1]), 0)

\* T has at least the matches, heavy atoms and rings of Q, and a stereocentre
\* and a charge where Q has one
Dominates(T, Q) ==
    /\ \A k \in 1..Len(dalke_counts) : MatchCount(T, k) >= MatchCount(Q, k)
    /\ getNumHeavyAtoms(T) >= getNumHeavyAtoms(Q)
    /\ numRings(T) >= numRings(Q)
    /\ hasStereo(Q) => hasStereo(T)
    /\ hasCharges(Q) => hasCharges(T)

\* C19: if T has, for every catalog pattern, at least as many matches as Q,
\* at least Q's heavy atoms and rings, and a stereocentre (a charged atom)
\* whenever Q has one, then every fragment bit of make_dalke_fp(Q) is set in
\* make_dalke_fp(T), the two buckets of T are >= those of Q, and
\* dalke_fp_contains(make_dalke_fp(T), make_dalke_fp(Q)) is true.
C19_GenerateIsMonotone ==
    (op = "dalke_fp_contains" /\ src[1] # "fp" /\ Dominates(MolOf(1), MolOf(2))) =>
        /\ (right \cap (0..54)) \subseteq left
        /\ Field(left, 55, 4) >= Field(right, 55, 4)
        /\ Field(left, 59, 2) >= Field(right, 59, 2)
        /\ result = Bool(TRUE)

\* C19 witness: the chain of 11 carbons against hexane: more matches of
\* every pattern hexane has, a higher heavy-atom bucket (2 against 1), bit 39
\* (C at least 9 times) on top of hexane's bits, and the screen passed.
C19_Witness ==
    /\ op = "dalke_fp_contains"
    /\ src = <<"CCCCCCCCCCC", "CCCCCC">>
    /\ Dominates(MolOf(1), MolOf(2))
    /\ Field(left, 55, 4) = 2 /\ Field(right, 55, 4) = 1
    /\ 39 \in left /\ 39 \notin right /\ 40 \in right
    /\ result = Bool(TRUE)

\* the upper boundaries of buckets 0..14, in order
BucketBoundaries == <<5, 10, 15, 20, 25, 30, 35, 40, 50, 60, 75, 90, 110, 140, 180>>

\* C20: heavy_atom_bucket(n) is the first k with n <= boundary k (0 for
\* n <= 5, 1 for n <= 10, ..., 14 for n <= 180) and 15 above 180; it lies in
\* 0..15 and is non-decreasing in n.
C20_HeavyAtomBucketTable ==
    op = "heavy_atom_bucket" =>
        /\ result.v[1] = Cardinality({k \in 1..15 : left > BucketBoundaries[k]})
        /\ result.v[1] \in 0..15
        /\ left <= right => result.v[1] <= result.v[2]

\* C20 witness: 180 heavy atoms fall in bucket 14 and 181 in bucket 15.
C20_Witness ==
    /\ op = "heavy_atom_bucket"
    /\ left = 180 /\ right = 181
    /\ result.v = <<14, 15>>

\* what the operations return on a row with text t when they run alone, on
\* a build with the catalog as shipped
AloneOut ==
    [t \in WorkerTexts |->
        LET buf == StoredPrefixed(t)
        IN  [umbramol |-> Blob(buf),
             fp |-> dalke_fp_from_umbramol_row(buf).res,
             mol |-> umbramol_to_mol_row(buf).res,
             match |-> is_substruct_umbramol(buf, StoredPrefixed("C"), 0, 0).res]]

\* everything worker w has produced so far is what the operation returns
\* when it runs alone
AsAlone(w) ==
    /\ out[w].umbramol \in {None, AloneOut[chunk[w]].umbramol}
    /\ out[w].fp \in {None, AloneOut[chunk[w]].fp}
    /\ out[w].mol \in {None, AloneOut[chunk[w]].mol}
    /\ out[w].match \in {None, AloneOut[chunk[w]].match}

\* C16: while workers generate, encode, decode, convert and compare on
\* their own rows in any interleaving, no step writes dalke_counts, an input
\* row or a buffer already built, and every result is the one the operation
\* returns when it runs alone.
C16_WorkersDoNotInterfere ==
    [][/\ catalog' = catalog
       /\ catalog' = dalke_counts
       /\ chunk' = chunk
       /\ \A w \in Workers :
             /\ out[w].umbramol # None => out'[w].umbramol = out[w].umbramol
             /\ AsAlone(w)']_vars

\* C16 witness: worker 1 has finished its row (ethanol) while worker 2 is in
\* the middle of the catalog loop on a different molecule.
C16_Witness ==
    /\ fn = "umbramol_from_smiles"
    /\ DOMAIN pc = Workers
    /\ pc[1] = "done" /\ pc[2] = "loop"
    /\ chunk[1] = "CCO" /\ chunk[2] = "[NH4+]"
    /\ frames[2].k = 20
    /\ out[1] = AloneOut["CCO"]

\* the fingerprint of argument side of the current row
FpOf(side) == IF side = 1 THEN left ELSE right

\* C21: make_dalke_fp of a molecule has the heavy-atom bucket in bits 55-58,
\* min(ring count, 3) in bits 59-60, bit 61 set exactly when some atom has a
\* chiral tag, bit 62 set exactly when some atom has a formal charge, and bit
\* 63 clear; the loop over the catalog sets bits 0..54 only, and bits 0..54
\* of the fingerprint are exactly the bits that loop set.
C21_FieldsOfGenerate ==
    (colType = "DalkeFP" /\ src[1] # "fp") =>
        \A side \in {1, 2} :
            LET G == MolOf(side)
                frags == FragmentLoop(dalke_counts, G).fp
            IN  /\ Field(FpOf(side), 55, 4) = heavy_atom_bucket(getNumHeavyAtoms(G))
                /\ Field(FpOf(side), 59, 2) = Min(numRings(G), 3)
                /\ 61 \in FpOf(side) <=> \E i \in 1..Len(G.atoms) : G.atoms[i].chi # 0
                /\ 62 \in FpOf(side) <=> \E i \in 1..Len(G.atoms) : G.atoms[i].q # 0
                /\ 63 \notin FpOf(side)
                /\ frags \subseteq 0..54
                /\ FpOf(side) \cap (0..54) = frags

\* C21 witness: pyramidane has four rings and no stereocentre: its ring
\* field is 3 and bit 61 is clear; the chiral amino alcohol has bit 61 and
\* the ring field 0.
C21_Witness ==
    /\ colType = "DalkeFP"
    /\ src = <<"C123C4C1C2C34", "C[C@H](N)O">>
    /\ numRings(MolOf(1)) = 4
    /\ Field(left, 59, 2) = 3 /\ 61 \notin left
    /\ Field(right, 59, 2) = 0 /\ 61 \in right

\* C22: dalke_fp_contains on the fingerprints of a target and a query is
\* false whenever min(rings(target), 3) < min(rings(query), 3), in particular
\* for every acyclic target and every query with a ring.
C22_FewerRingsNeverContains ==
    (op = "dalke_fp_contains" /\ src[1] # "fp") =>
        /\ Min(numRings(MolOf(1)), 3) < Min(numRings(MolOf(2)), 3) =>
              result = Bool(FALSE)
        /\ (numRings(MolOf(1)) = 0 /\ numRings(MolOf(2)) >= 1) =>
              result = Bool(FALSE)

\* C22 witness: propane against cyclopropane: the same heavy-atom bucket, no
\* flags, every fragment bit of cyclopropane set in propane; only the ring
\* fields (0 against 1) tell them apart, and the screen said no.
C22_Witness ==
    /\ op = "dalke_fp_contains"
    /\ src = <<"CCC", "C1CC1">>
    /\ Field(left, 55, 4) = Field(right, 55, 4)
    /\ (right \cap (0..54)) \subseteq left
    /\ Field(left, 59, 2) = 0 /\ Field(right, 59, 2) = 1
    /\ result = Bool(FALSE)

\* C23: the thresholds of every entry of dalke_counts are listed in
\* ascending order, and in every generated fingerprint the set bits of an
\* entry are the first bits of the entry's bit range (a set bit of the entry
\* has every lower bit of the entry set).
C23_ThresholdsAscendWithinEntry ==
    (op = "dalke_fp_from_mol" /\ src[1] # "blob" /\ result.tag = "fp") =>
        \A k \in 1..Len(catalog) :
            LET first == curBitAt(catalog, k)
                n == Len(catalog[k]) - 1
            IN  /\ \A i \in 2..n : stoi(catalog[k][i]) < stoi(catalog[k][i + 1])
                /\ \A b \in (first + 1)..(first + n - 1) :
                      b \in result.v => (b - 1) \in result.v

\* C24: when a pattern of the catalog does not parse (SmilesToMol raises or
\* returns no molecule), make_dalke_fp returns no fingerprint to any row and
\* never calls SubstructMatch with the missing pattern.
C24_UnparsablePatternFailsLoudly ==
    (fn \in GeneratingFns /\ \E k \in 1..Len(catalog) : ~SmilesParses(catalog[k][1])) =>
        /\ \A i \in 1..Len(out) : out[i].tag \notin {"fp", "blob"}
        /\ \A i \in 1..Len(calls) :
              ~(calls[i].f = "SubstructMatch" /\ calls[i].arg = "nullptr")

\* C25: mol_to_umbramol and umbramol_to_mol both deserialize the payload of
\* their argument and write a result regenerated from the molecule; an
\* argument whose payload does not deserialize gives no buffer for its row.
C25_ConvertDeserializesThenRegenerates ==
    /\ op = "mol_to_umbramol" =>
          /\ Deserialized
          /\ IF PickleWellFormed(left)
             THEN result = Blob(get_umbra_mol_string(molFromPickle(left).mol))
             ELSE result.tag # "blob"
    /\ op = "umbramol_to_mol" =>
          /\ Deserialized
          /\ IF Len(left) >= 8 /\ PickleWellFormed(PayloadOf(left))
             THEN result = Blob(rdkit_mol_to_binary_mol(
                                    molFromPickle(PayloadOf(left)).mol))
             ELSE result.tag # "blob"

\* the comparators of prefixed buffers that decide on fingerprints
ScreeningOps == {"is_substruct_umbramol", "substruct_count_umbramol",
                 "is_exact_match_umbramol"}

\* C26: is_substruct, substruct_count and is_exact_match on two prefixed
\* buffers of at least 8 bytes take the fingerprints they decide on from the
\* 8 leading bytes of each buffer's data (one 8-byte read per buffer) and
\* never from the prefix field the string_t keeps inline.
C26_DecisionsReadLeadingBytes ==
    (op \in ScreeningOps /\ Len(left) >= 8 /\ Len(right) >= 8) =>
        /\ CallsTo("GetPrefix") = {}
        /\ \E i, j \in 1..Len(calls) :
              /\ calls[i] = Call("GetDalkeFP", "left", DALKE_FP_PREFIX_BYTES)
              /\ calls[j] = Call("GetDalkeFP", "right", DALKE_FP_PREFIX_BYTES)

\* C27: on 64-bit values dalke_fp_contains is reflexive and transitive;
\* contains(a, b) and contains(b, a) together imply that a and b agree on
\* bits 0-62; and a value may be replaced, as target or as query, by the
\* value with bit 63 flipped without changing any result.
C27_ContainsIsPartialOrderModuloBit63 ==
    (fn = "dalke_fp_contains" /\ status = "done") =>
        \A i, j, k \in 1..3 :
            /\ out[<<i, i>>] = Bool(TRUE)
            /\ (out[<<i, j>>].v /\ out[<<j, k>>].v) => out[<<i, k>>].v
            /\ (out[<<i, j>>].v /\ out[<<j, i>>].v) =>
                  chunk[i] \ {63} = chunk[j] \ {63}
            /\ chunk[i] \ {63} = chunk[k] \ {63} =>
                  /\ out[<<i, j>>] = out[<<k, j>>]
                  /\ out[<<j, i>>] = out[<<j, k>>]

\* C27 witness: a target with heavy-atom bucket 8 contains a query with
\* bucket 7 (more as a number, not a superset as bits) and not the other way
\* round; the query with bit 63 set gets the same answers.
C27_Witness ==
    /\ fn = "dalke_fp_contains" /\ status = "done"
    /\ Field(chunk[1], 55, 4) = 8 /\ Field(chunk[2], 55, 4) = 7
    /\ 63 \notin chunk[2]
    /\ chunk[3] = chunk[2] \cup {63}
    /\ out[<<1, 2>>] = Bool(TRUE) /\ out[<<1, 3>>] = Bool(TRUE)
    /\ out[<<2, 1>>] = Bool(FALSE) /\ out[<<3, 1>>] = Bool(FALSE)
    /\ out[<<2, 3>>] = Bool(TRUE) /\ out[<<3, 2>>] = Bool(TRUE)

\* the largest match count the threshold loop is tried on
MaxCount == 12

\* the number of matches of query in mol with no cap, matches on the same
\* atoms counted once
TrueCount(mol, query) ==
    Cardinality({Range(m) : m \in Embeddings(mol, query, <<>>, FALSE)})

\* C28: every threshold of dalke_counts is at most maxMatches, and the cap
\* changes no bit: the fragment bits of a generated fingerprint are those of
\* the uncapped match counts, and for every entry and every count n the
\* threshold loop sets the same bits for min(n, maxMatches) as for n.
C28_MatchCapChangesNoBit ==
    (colType = "DalkeFP" /\ src[1] # "fp") =>
        /\ \A k \in 1..Len(dalke_pairs) : dalke_pairs[k][2] <= maxMatches
        /\ \A side \in {1, 2} :
              FpOf(side) \cap (0..54) =
                  {k \in 0..54 :
                      TrueCount(MolOf(side), SmilesGraph(dalke_pairs[k + 1][1]))
                          >= dalke_pairs[k + 1][2]}
        /\ \A k \in 1..Len(dalke_counts), n \in 0..MaxCount :
              ThresholdLoop(dalke_counts[k], 2, Min(n, maxMatches), {}, 0).fp
                  = ThresholdLoop(dalke_counts[k], 2, n, {}, 0).fp

\* C28 witness: the chain of 11 carbons has 11 matches of C, one more than
\* the cap, and its fingerprint has the bits of C at least 9, 6 and 1 times.
C28_Witness ==
    /\ colType = "DalkeFP"
    /\ src[1] = "CCCCCCCCCCC"
    /\ TrueCount(MolOf(1), SmilesGraph("C")) = 11
    /\ SubstructMatchCount(MolOf(1), SmilesGraph("C"), maxMatches) = maxMatches
    /\ {39, 40, 41} \subseteq left

\* C29: for two molecules A and B, is_exact_match on their prefixed
\* encodings and is_exact_match on their bare encodings return the same
\* boolean.
C29_PrefixedExactMatchAgreesWithBare ==
    /\ (op = "is_exact_match_umbramol" /\ FromSmiles) =>
          /\ result.tag = "bool"
          /\ result = is_exact_match_mol_row(StoredBare(src[1]), StoredBare(src[2])).res
    /\ (op = "is_exact_match_mol" /\ FromSmiles) =>
          /\ result.tag = "bool"
          /\ result = is_exact_match_umbramol_row(StoredPrefixed(src[1]),
                                                  StoredPrefixed(src[2])).res

\* C29 witness: the amino alcohol with and without its chiral tag: the two
\* fingerprints differ (bit 61), the prefix comparison let the pair through
\* and is_exact_match returned true, as it does on the bare encodings.
C29_Witness ==
    /\ op = "is_exact_match_umbramol"
    /\ src = <<"CC(N)O", "C[C@H](N)O">>
    /\ HeaderOf(left) # HeaderOf(right)
    /\ Deserialized
    /\ result = Bool(TRUE)
    /\ is_exact_match_mol_row(PayloadOf(left), PayloadOf(right)).res = Bool(TRUE)

\* the leading 8 bytes of a prefixed buffer are the fingerprint of the
\* molecule its own payload deserializes to
PrefixMatchesPayload(buf) ==
    /\ Len(buf) >= 8
    /\ molFromPickle(PayloadOf(buf)).ok
    /\ HeaderOf(buf) = make_dalke_fp(molFromPickle(PayloadOf(buf)).mol)

\* C30: every prefixed buffer written by umbramol_from_smiles, by the cast
\* from text or by mol_to_umbramol, after any sequence of encodings and
\* conversions, has at least 8 bytes, and its first 8 bytes are
\* make_dalke_fp of the molecule its payload deserializes to.
C30_PrefixMatchesOwnPayload ==
    /\ (colType = "UmbraMol" /\ op = "none") =>
          /\ src[1] # "blob" => PrefixMatchesPayload(left)
          /\ src[2] # "blob" => PrefixMatchesPayload(right)
    /\ (op = "mol_to_umbramol" /\ result.tag = "blob") =>
          PrefixMatchesPayload(result.v)

\* C30 witness: mol_to_umbramol ran on the bare ammonium ion; the buffer it
\* wrote has the fingerprint of a one-atom molecule with a charge (bit 62)
\* in front of the payload it was given.
C30_Witness ==
    /\ op = "mol_to_umbramol"
    /\ src[1] = "[NH4+]"
    /\ result.tag = "blob"
    /\ Len(result.v) = 8 + Len(left)
    /\ PayloadOf(result.v) = left
    /\ 62 \in HeaderOf(result.v)

=============================================================================
